---- MODULE Spec2Model ----
(***************************************************************************)
(* A model of hyperglass' ALS diagnostics layer:                            *)
(*   - IPerf3Server (api/network_tools.py): port allocation, helper        *)
(*     process spawn, session map, stop with terminate/kill escalation;    *)
(*   - shutdown_als_features (api/als_startup.py);                         *)
(*   - BandwidthMonitor (api/bandwidth.py): start/stop of the sampling      *)
(*     loop task, _collect_stats, bounded per-interface history.           *)
(* Coroutines run on one cooperative event loop: an action is the code     *)
(* between two suspension points (await).  Helper processes               *)
(* and the wall clock are the environment.                                 *)
(***************************************************************************)
EXTENDS Integers, Sequences, FiniteSets, TLC

VARIABLES
    processes,        \* IPerf3Server.processes: dict port -> process, in insertion order
    req,              \* the coroutines calling the manager: one record per caller slot
    attempt,          \* get_available_port: failed probes so far in the running for-loop
    procs,            \* the helper processes the manager has spawned
    lastCall,         \* history: the call of the manager that ended most recently
    monitoring,       \* BandwidthMonitor.monitoring
    monitor_task,     \* BandwidthMonitor.monitor_task (0 = None)
    tasks,            \* the asyncio tasks created for _monitor_loop
    interface_stats,  \* BandwidthMonitor.interface_stats: interface -> deque(maxlen=60)
    last_stats,       \* BandwidthMonitor.last_stats: interface -> last sample
    now,              \* the last reading of time.time()
    collected,        \* history: every sample ever appended, per interface
    ticker,           \* history: the task that ran the latest loop iteration
    nticks,           \* history: loop iterations run so far
    bwreq,            \* the coroutines suspended in stop_monitoring
    bwlast,           \* history: the start/stop_monitoring call that ended most recently
    snapshot,         \* the result of get_current_stats its latest caller holds
    tickLog,          \* history: how each loop iteration ended, oldest first
    cache,            \* the key-value store: cache key -> output, timestamp, remaining TTL
    ctime,            \* the clock of the query handler and of the store, in ticks
    qreq,             \* the coroutines of the query handler: one record per caller slot
    qlast,            \* history: the response of the query request that ended most recently
    origin,           \* history: per stored key, what the miss that populated it responded
    als_features,     \* the ALSFeatures object of the running configuration
    checked,          \* history: the latest call of is_feature_enabled and its result
    validated,        \* history: the latest call of validate_als_config and its result
    path,             \* the tools shutil.which finds on the host
    requirements,     \* history: the latest call of check_system_requirements and its result
    download,         \* the streaming response of the latest speed-test download
    toolreq,          \* the coroutine of the ping or traceroute handler
    toolproc,         \* the helper process the ping or traceroute handler has spawned
    toollast          \* history: how the latest ping or traceroute request ended

vars == <<processes, req, attempt, procs, lastCall, monitoring, monitor_task,
          tasks, interface_stats, last_stats, now, collected, ticker, nticks,
          bwreq, bwlast, snapshot, tickLog, cache, ctime, qreq, qlast, origin,
          als_features, checked, validated, path, requirements,
          download, toolreq, toolproc, toollast>>

iperfVars == <<processes, req, attempt, procs, lastCall>>
bwVars == <<monitoring, monitor_task, tasks, interface_stats, last_stats, now,
            collected, ticker, nticks, bwreq, bwlast>>
\* the state of the other components
cacheVars == <<cache, ctime, qreq, qlast, origin>>
samplerReadVars == <<snapshot, tickLog>>
alsVars == <<als_features, checked, validated>>
toolVars == <<path, requirements>>
handlerVars == <<download, toolreq, toolproc, toollast>>
otherVars == <<snapshot, tickLog, cache, ctime, qreq, qlast, origin,
               als_features, checked, validated, path, requirements,
               download, toolreq, toolproc, toollast>>

(***************************************************************************)
(* Bounds of the model and constants of the program.                       *)
(***************************************************************************)
NumReqs == 2          \* concurrent callers of the session manager
NumPorts == 2         \* size of the modelled port range
MaxProcs == 2         \* helper processes spawned in one behaviour
PortLo == 30000       \* IPerf3Server.port_range[0]
PortHi == PortLo + NumPorts - 1
MaxAttempts == 100    \* for _ in range(100)
NumCallers == 2       \* concurrent callers of stop_monitoring
MaxTasks == 2         \* _monitor_loop tasks created in one behaviour
MaxTicks == 2         \* iterations of the sampling loop in one behaviour
ExtraTicks == 3       \* iterations past the history capacity in the long run
HistoryLen == 60      \* deque(maxlen=60)
SnapshotLen == 30     \* history[-30:]
NumQueryReqs == 2     \* concurrent requests of the query handler
CacheTimeout == 2     \* params.cache.timeout, in ticks of the clock
MaxTime == 4          \* ticks of the clock in one behaviour

Reqs == 1..NumReqs
ProcIds == 1..MaxProcs
PortRange == PortLo..PortHi
Callers == 1..NumCallers
TaskIds == 1..MaxTasks
QueryReqs == 1..NumQueryReqs

(***************************************************************************)
(* The dict self.processes, as the sequence of its items in insertion      *)
(* order.                                                                  *)
(***************************************************************************)
Keys(d) == [i \in 1..Len(d) |-> d[i].port]

HasKey(d, port) == \E i \in 1..Len(d) : d[i].port = port

GetItem(d, port) == d[CHOOSE i \in 1..Len(d) : d[i].port = port].proc

\* d[port] = proc: an existing key keeps its position, a new key goes last.
SetItem(d, port, proc) ==
    IF HasKey(d, port)
    THEN [i \in 1..Len(d) |-> IF d[i].port = port THEN [port |-> port, proc |-> proc] ELSE d[i]]
    ELSE Append(d, [port |-> port, proc |-> proc])

\* del d[port]
DelItem(d, port) == SelectSeq(d, LAMBDA e : e.port # port)

(***************************************************************************)
(* The host: which ports are bound.  A helper holds its port while it      *)
(* listens.                                                                *)
(***************************************************************************)
Listening(p) == procs[p].state = "listening"

BoundPorts == {procs[p].port : p \in {q \in ProcIds : Listening(q)}}

\* The event loop still holds the transport of a process: it is None once the
\* loop has seen the process exit and its pipes close.
TransportOpen(p) == procs[p].state \in {"running", "listening", "exited"}

NoReq == [op |-> "none", pc |-> "idle", port |-> 0, proc |-> 0,
          result |-> "none", found |-> FALSE, todo |-> <<>>,
          iperf |-> FALSE, seen |-> {}, task |-> 0]

\* what lastCall keeps of a call that ended
Ended(op, port, proc, found, result) ==
    [op |-> op, port |-> port, proc |-> proc, found |-> found, result |-> result]

NoLast == Ended("none", 0, 0, FALSE, "none")

NoProc == [state |-> "none", port |-> 0, term |-> FALSE, kill |-> FALSE]

\* No coroutine runs while another is inside synchronous code.
InSync == \E r \in Reqs : req[r].pc = "probe"

ShutdownBegun == \E r \in Reqs : req[r].op = "shutdown"

CanBegin(r) == req[r].pc = "idle" /\ ~InSync /\ ~ShutdownBegun

FreeProcs == {p \in ProcIds : procs[p].state = "none"}

NewProc == CHOOSE p \in FreeProcs : \A q \in FreeProcs : p <= q

(***************************************************************************)
(* IPerf3Server.get_available_port: up to MaxAttempts draws of a port,     *)
(* each probed by binding a throwaway socket that is closed at once.       *)
(***************************************************************************)
\* a draw that may fall one past the upper end of the range
RandomPorts_OffByOne == PortLo..(PortHi + 1)

\* random.randint(*self.port_range): both ends included
RandomPorts == PortLo..PortHi

\* s.bind(('', port)) succeeds
ProbeBinds(port) == port \notin BoundPorts

\* the for-loop still has an iteration to run
MoreAttempts == attempt < MaxAttempts

\* start_server is entered; get_available_port begins its loop.
StartServer(r) ==
    /\ CanBegin(r)
    /\ req' = [req EXCEPT ![r] = [NoReq EXCEPT !.op = "start", !.pc = "probe"]]
    /\ attempt' = 0
    /\ UNCHANGED <<processes, procs, lastCall>>
    /\ UNCHANGED bwVars
    /\ UNCHANGED otherVars

\* An iteration of the for-loop whose probe raises OSError: continue.
ProbeBusy(r) ==
    /\ req[r].pc = "probe"
    /\ MoreAttempts
    /\ \E port \in RandomPorts :
         /\ ~ProbeBinds(port)
         /\ attempt' = attempt + 1
    /\ UNCHANGED <<processes, req, procs, lastCall>>
    /\ UNCHANGED bwVars
    /\ UNCHANGED otherVars

\* The loop ran out: RuntimeError("No available ports in range"), which
\* start_server turns into HTTPException(500).
ProbeExhausted(r) ==
    /\ req[r].pc = "probe"
    /\ ~MoreAttempts
    /\ req' = [req EXCEPT ![r] = NoReq]
    /\ lastCall' = Ended("start", 0, 0, FALSE, "http500_noport")
    /\ attempt' = 0
    /\ UNCHANGED <<processes, procs>>
    /\ UNCHANGED bwVars
    /\ UNCHANGED otherVars

(***************************************************************************)
(* IPerf3Server.start_server.  create_subprocess_exec forks the helper in  *)
(* the same synchronous stretch as the probe that returned the port, and   *)
(* then suspends the coroutine until the transport is ready.               *)
(***************************************************************************)
\* An iteration whose probe binds returns the port; the helper is forked.
ProbeSpawn(r) ==
    /\ req[r].pc = "probe"
    /\ MoreAttempts
    /\ FreeProcs # {}
    /\ \E port \in RandomPorts :
         /\ ProbeBinds(port)
         /\ procs' = [procs EXCEPT ![NewProc] =
                         [state |-> "running", port |-> port, term |-> FALSE, kill |-> FALSE]]
         /\ req' = [req EXCEPT ![r].pc = "spawned", ![r].port = port, ![r].proc = NewProc]
    /\ attempt' = 0
    /\ UNCHANGED <<processes, lastCall>>
    /\ UNCHANGED bwVars
    /\ UNCHANGED otherVars

\* a session recorded although the spawn failed
SpawnFailedMap_Registers(d, port) == SetItem(d, port, 0)

\* what the except clause of start_server leaves in the session map
SpawnFailedMap(d, port) == d

\* An iteration whose probe binds returns the port, and create_subprocess_exec
\* raises (iperf3 missing, fork failure): the except clause logs and raises
\* HTTPException(500) carrying the cause.
ProbeSpawnFail(r) ==
    /\ req[r].pc = "probe"
    /\ MoreAttempts
    /\ \E port \in RandomPorts :
         /\ ProbeBinds(port)
         /\ req' = [req EXCEPT ![r] = NoReq]
         /\ lastCall' = Ended("start", port, 0, FALSE, "http500_spawn")
         /\ processes' = SpawnFailedMap(processes, port)
    /\ attempt' = 0
    /\ UNCHANGED <<procs>>
    /\ UNCHANGED bwVars
    /\ UNCHANGED otherVars

\* self.processes[port] = process; return {"port": port, "status": "started", ...}
StartReturn(r) ==
    /\ req[r].pc = "spawned"
    /\ ~InSync
    /\ processes' = SetItem(processes, req[r].port, req[r].proc)
    /\ req' = [req EXCEPT ![r] = NoReq]
    /\ lastCall' = Ended("start", req[r].port, req[r].proc, FALSE, "started")
    /\ UNCHANGED <<attempt, procs>>
    /\ UNCHANGED bwVars
    /\ UNCHANGED otherVars

(***************************************************************************)
(* The helper processes and the host.                                      *)
(***************************************************************************)
\* iperf3 -s -p port binds its port, or exits when the port is taken.
ProcBind(p) ==
    /\ procs[p].state = "running"
    /\ procs' = [procs EXCEPT ![p].state =
                    IF procs[p].port \in BoundPorts THEN "exited" ELSE "listening"]
    /\ UNCHANGED <<processes, req, attempt, lastCall>>
    /\ UNCHANGED bwVars
    /\ UNCHANGED otherVars

\* The helper exits: it served its one client (-1), or a signal ended it.
ProcExit(p) ==
    /\ procs[p].state \in {"running", "listening"}
    /\ procs' = [procs EXCEPT ![p].state = "exited"]
    /\ UNCHANGED <<processes, req, attempt, lastCall>>
    /\ UNCHANGED bwVars
    /\ UNCHANGED otherVars

\* The event loop sees the exit and the closed pipes: process.wait() completes
\* and the transport drops its Popen object.
LoopReap(p) ==
    /\ procs[p].state = "exited"
    /\ ~InSync
    /\ procs' = [procs EXCEPT ![p].state = "closed"]
    /\ UNCHANGED <<processes, req, attempt, lastCall>>
    /\ UNCHANGED bwVars
    /\ UNCHANGED otherVars

(***************************************************************************)
(* IPerf3Server.stop_server, called by the HTTP handler (op "stop") and by *)
(* the for-loop of shutdown_als_features (op "shutdown").                  *)
(***************************************************************************)
\* process.terminate() / process.kill(): asyncio raises ProcessLookupError
\* when the transport has already dropped the process.
SignalRaises(p) == ~TransportOpen(p)

\* The for-loop of shutdown_als_features from its next port on, up to the
\* first suspension: stop_server returns False at once for a port that is no
\* longer recorded, and an exception leaves the loop for the except clause.
RECURSIVE SdAdvance(_, _)
SdAdvance(d, todo) ==
    IF todo = <<>>
    THEN [pc |-> "done", result |-> "ok", port |-> 0, proc |-> 0, todo |-> <<>>]
    ELSE LET port == Head(todo) IN
         IF ~HasKey(d, port)
         THEN SdAdvance(d, Tail(todo))
         ELSE LET p == GetItem(d, port) IN
              IF SignalRaises(p)
              THEN [pc |-> "done", result |-> "error_logged", port |-> port,
                    proc |-> p, todo |-> Tail(todo)]
              ELSE [pc |-> "stop_wait", result |-> "none", port |-> port,
                    proc |-> p, todo |-> Tail(todo)]

\* the result a finished stop_server call hands to its caller
StopResult(outcome) == outcome

\* A stop_server call of coroutine r ends with `outcome`, leaving the session
\* map d and the processes P: the HTTP handler returns it; the shutdown loop
\* goes on to its next port, or to its except clause when the call raised.
AfterStop(r, d, P, outcome) ==
    /\ processes' = d
    /\ IF req[r].op = "stop"
       THEN /\ req' = [req EXCEPT ![r] = NoReq]
            /\ lastCall' = Ended("stop", req[r].port, req[r].proc, req[r].found,
                             StopResult(outcome))
            /\ procs' = P
       ELSE IF outcome \in {"raised_lookup", "raised_key"}
       THEN /\ req' = [req EXCEPT ![r].pc = "done", ![r].result = "error_logged"]
            /\ procs' = P
            /\ UNCHANGED lastCall
       ELSE LET nx == SdAdvance(d, req[r].todo) IN
            /\ UNCHANGED lastCall
            /\ req' = [req EXCEPT ![r].pc = nx.pc, ![r].result = nx.result,
                                   ![r].port = nx.port, ![r].proc = nx.proc,
                                   ![r].todo = nx.todo]
            /\ procs' = IF nx.pc = "stop_wait"
                        THEN [P EXCEPT ![nx.proc].term = TRUE]
                        ELSE P

\* stop_server(port) is entered by the HTTP handler: `if port in self.processes`,
\* process.terminate(), then the wait for the process begins.
StopServer(r) ==
    /\ CanBegin(r)
    /\ \E port \in PortRange :
         LET found == HasKey(processes, port)
             call == [NoReq EXCEPT !.op = "stop", !.port = port, !.found = found]
         IN
         IF ~found
         THEN /\ lastCall' = Ended("stop", port, 0, FALSE, StopResult("false"))
              /\ UNCHANGED <<req, procs>>
         ELSE LET p == GetItem(processes, port) IN
              IF SignalRaises(p)
              THEN /\ lastCall' = Ended("stop", port, p, TRUE, StopResult("raised_lookup"))
                   /\ UNCHANGED <<req, procs>>
              ELSE /\ req' = [req EXCEPT ![r] = [call EXCEPT !.pc = "stop_wait", !.proc = p]]
                   /\ procs' = [procs EXCEPT ![p].term = TRUE]
                   /\ UNCHANGED lastCall
    /\ UNCHANGED <<processes, attempt>>
    /\ UNCHANGED bwVars
    /\ UNCHANGED otherVars

\* await asyncio.wait_for(process.wait(), timeout=5.0) returns: the loop has
\* seen the process exit.  Then del self.processes[port] and return True.
StopWaitDone(r) ==
    /\ req[r].pc = "stop_wait"
    /\ ~InSync
    /\ procs[req[r].proc].state = "closed"
    /\ IF HasKey(processes, req[r].port)
       THEN AfterStop(r, DelItem(processes, req[r].port), procs, "true")
       ELSE AfterStop(r, processes, procs, "raised_key")
    /\ UNCHANGED <<attempt>>
    /\ UNCHANGED bwVars
    /\ UNCHANGED otherVars

\* The 5 seconds elapse with process.wait() still pending: wait_for cancels the
\* wait, waits for the cancellation and raises TimeoutError.
StopTimeout(r) ==
    /\ req[r].pc = "stop_wait"
    /\ ~InSync
    /\ procs[req[r].proc].state # "closed"
    /\ req' = [req EXCEPT ![r].pc = "stop_kill"]
    /\ UNCHANGED <<processes, attempt, procs, lastCall>>
    /\ UNCHANGED bwVars
    /\ UNCHANGED otherVars

\* except asyncio.TimeoutError: process.kill(); then del self.processes[port]
\* and return True.
StopKill(r) ==
    /\ req[r].pc = "stop_kill"
    /\ ~InSync
    /\ IF SignalRaises(req[r].proc)
       THEN AfterStop(r, processes, procs, "raised_lookup")
       ELSE LET P == [procs EXCEPT ![req[r].proc].kill = TRUE] IN
            IF HasKey(processes, req[r].port)
            THEN AfterStop(r, DelItem(processes, req[r].port), P, "true")
            ELSE AfterStop(r, processes, P, "raised_key")
    /\ UNCHANGED <<attempt>>
    /\ UNCHANGED bwVars
    /\ UNCHANGED otherVars

(***************************************************************************)
(* BandwidthMonitor: interfaces, counters and samples.                     *)
(***************************************************************************)
\* Interface names are sequences of characters, so that startswith is computed.
Eth0 == <<"e", "t", "h", "0">>
Lo == <<"l", "o">>
Docker0 == <<"d", "o", "c", "k", "e", "r", "0">>
Interfaces == {Eth0, Lo, Docker0}

ExcludedPrefixes == {<<"l", "o">>, <<"d", "o", "c", "k", "e", "r">>,
                     <<"b", "r", "-">>, <<"v", "e", "t", "h">>}

StartsWith(name, prefix) ==
    /\ Len(name) >= Len(prefix)
    /\ SubSeq(name, 1, Len(prefix)) = prefix

\* a filter that skips the loopback interface only
Excluded_LoopbackOnly(name) == StartsWith(name, <<"l", "o">>)

\* interface.startswith(('lo', 'docker', 'br-', 'veth'))
Excluded(name) == \E prefix \in ExcludedPrefixes : StartsWith(name, prefix)

\* What psutil.net_io_counters(pernic=True) may report for one interface.
CounterChoices ==
    { [bytes_sent |-> 1000, bytes_recv |-> 2000, packets_sent |-> 10, packets_recv |-> 20],
      [bytes_sent |-> 1500, bytes_recv |-> 2600, packets_sent |-> 15, packets_recv |-> 27],
      [bytes_sent |-> 0, bytes_recv |-> 0, packets_sent |-> 0, packets_recv |-> 0] }

\* The snapshots one OS query may return: any set of interfaces present.
NetIoChoices ==
    UNION { [S -> CounterChoices] : S \in {{Eth0}, {Eth0, Lo}, {Lo, Docker0}, Interfaces} }

\* How far time.time() has moved since the previous reading: the wall clock
\* may stand still or be set back.
ClockSteps == {-1, 0, 1, 2}

\* A quotient a / b (b > 0) of the float division, kept exact as a reduced
\* fraction.
RECURSIVE Gcd(_, _)
Gcd(a, b) == IF b = 0 THEN a ELSE Gcd(b, a % b)

Abs(a) == IF a < 0 THEN -a ELSE a

Quot(a, b) ==
    LET g == Gcd(Abs(a), b) IN [num |-> a \div g, den |-> b \div g]

Zero == [num |-> 0, den |-> 1]

ZeroRates == [send_rate |-> Zero, recv_rate |-> Zero,
              send_packets_rate |-> Zero, recv_packets_rate |-> Zero]

Counters(current_time, stats) ==
    [timestamp |-> current_time,
     bytes_sent |-> stats.bytes_sent, bytes_recv |-> stats.bytes_recv,
     packets_sent |-> stats.packets_sent, packets_recv |-> stats.packets_recv]

\* rates that take every interval between two samples to be one second
DeltaRates_PerTick(stats, last, time_diff) ==
    [send_rate |-> Quot(stats.bytes_sent - last.bytes_sent, 1),
     recv_rate |-> Quot(stats.bytes_recv - last.bytes_recv, 1),
     send_packets_rate |-> Quot(stats.packets_sent - last.packets_sent, 1),
     recv_packets_rate |-> Quot(stats.packets_recv - last.packets_recv, 1)]

\* the rates of a sample when self.last_stats holds a previous sample
DeltaRates(stats, last, time_diff) ==
    IF time_diff > 0
    THEN [send_rate |-> Quot(stats.bytes_sent - last.bytes_sent, time_diff),
          recv_rate |-> Quot(stats.bytes_recv - last.bytes_recv, time_diff),
          send_packets_rate |-> Quot(stats.packets_sent - last.packets_sent, time_diff),
          recv_packets_rate |-> Quot(stats.packets_recv - last.packets_recv, time_diff)]
    ELSE ZeroRates

\* rates taken against counters of zero one second earlier
FirstRates_FromZero(stats) ==
    [send_rate |-> Quot(stats.bytes_sent, 1), recv_rate |-> Quot(stats.bytes_recv, 1),
     send_packets_rate |-> Quot(stats.packets_sent, 1),
     recv_packets_rate |-> Quot(stats.packets_recv, 1)]

\* the rates of a sample when the interface is not in self.last_stats
FirstRates(stats) == ZeroRates

\* current_stats of one interface, as _collect_stats builds it
NewSample(i, current_time, stats) ==
    LET rates == IF i \in DOMAIN last_stats
                 THEN DeltaRates(stats, last_stats[i], current_time - last_stats[i].timestamp)
                 ELSE FirstRates(stats)
        c == Counters(current_time, stats)
    IN [timestamp |-> c.timestamp,
        bytes_sent |-> c.bytes_sent, bytes_recv |-> c.bytes_recv,
        packets_sent |-> c.packets_sent, packets_recv |-> c.packets_recv,
        send_rate |-> rates.send_rate, recv_rate |-> rates.recv_rate,
        send_packets_rate |-> rates.send_packets_rate,
        recv_packets_rate |-> rates.recv_packets_rate]

\* a deque without maxlen
DequeAppend_Unbounded(q, x) == Append(q, x)

\* deque(maxlen=60).append(x): at capacity the oldest item is discarded
DequeAppend(q, x) ==
    IF Len(q) < HistoryLen THEN Append(q, x) ELSE Append(Tail(q), x)

\* the interfaces the for-loop of _collect_stats does not skip
Kept(net_io) == {i \in DOMAIN net_io : ~Excluded(i)}

\* _collect_stats with the clock reading current_time and the OS answer net_io
CollectStats(current_time, net_io) ==
    LET kept == Kept(net_io)
        sample(i) == NewSample(i, current_time, net_io[i])
        before(f, i) == IF i \in DOMAIN f THEN f[i] ELSE <<>>
    IN
    /\ interface_stats' =
         [i \in DOMAIN interface_stats \cup kept |->
            IF i \in kept THEN DequeAppend(before(interface_stats, i), sample(i))
            ELSE interface_stats[i]]
    /\ last_stats' =
         [i \in DOMAIN last_stats \cup kept |->
            IF i \in kept THEN sample(i) ELSE last_stats[i]]
    /\ collected' =
         [i \in DOMAIN collected \cup kept |->
            IF i \in kept THEN Append(before(collected, i), sample(i))
            ELSE collected[i]]

(***************************************************************************)
(* BandwidthMonitor: start_monitoring, stop_monitoring and the task that   *)
(* runs _monitor_loop.  A task is "pending" until its first step,          *)
(* "sleeping" in asyncio.sleep(1) and "done" once the coroutine returned.  *)
(***************************************************************************)
NoTask == [state |-> "none", cancel |-> FALSE]

NoCall == [pc |-> "idle", task |-> 0]

\* what bwlast keeps of a call that ended: `found` is the value of
\* self.monitoring the call read, `task` the task it created or awaited
EndedBw(op, found, task) == [op |-> op, found |-> found, task |-> task]

FreeTasks == {t \in TaskIds : tasks[t].state = "none"}

NewTask == CHOOSE t \in FreeTasks : \A u \in FreeTasks : t <= u

Unfinished(t) == tasks[t].state \in {"pending", "sleeping"}

\* task.cancel(): a request to cancel, which a task that is done ignores
Cancel(T, t) == IF T[t].state = "done" THEN T ELSE [T EXCEPT ![t].cancel = TRUE]

\* start_monitoring without its guard
StartIsNoop_Missing == FALSE

\* `if self.monitoring: return`
StartIsNoop == monitoring

\* start_monitoring: it has no suspension point.
StartMonitoring ==
    /\ ~InSync
    /\ IF StartIsNoop
       THEN /\ bwlast' = EndedBw("start", TRUE, 0)
            /\ UNCHANGED <<monitoring, monitor_task, tasks>>
       ELSE /\ FreeTasks # {}
            /\ monitoring' = TRUE
            /\ tasks' = [tasks EXCEPT ![NewTask] = [NoTask EXCEPT !.state = "pending"]]
            /\ monitor_task' = NewTask
            /\ bwlast' = EndedBw("start", FALSE, NewTask)
    /\ UNCHANGED <<interface_stats, last_stats, now, collected, ticker, nticks, bwreq>>
    /\ UNCHANGED iperfVars
    /\ UNCHANGED otherVars

\* stop_monitoring that cancels the task and does not wait for it
AwaitOver_NoWait(T, t) == TRUE

\* `await self.monitor_task` has nothing left to wait for
AwaitOver(T, t) == T[t].state = "done"

\* stop_monitoring up to `await self.monitor_task`.
StopMonitoring(s) ==
    /\ bwreq[s].pc = "idle"
    /\ ~InSync
    /\ IF ~monitoring
       THEN /\ bwlast' = EndedBw("stop", FALSE, 0)
            /\ UNCHANGED <<monitoring, tasks, bwreq>>
       ELSE /\ monitoring' = FALSE
            /\ IF monitor_task = 0
               THEN /\ bwlast' = EndedBw("stop", TRUE, 0)
                    /\ UNCHANGED <<tasks, bwreq>>
               ELSE /\ tasks' = Cancel(tasks, monitor_task)
                    /\ IF AwaitOver(tasks, monitor_task)
                       THEN /\ bwlast' = EndedBw("stop", TRUE, monitor_task)
                            /\ UNCHANGED bwreq
                       ELSE /\ bwreq' = [bwreq EXCEPT ![s] = [pc |-> "awaiting",
                                                             task |-> monitor_task]]
                            /\ UNCHANGED bwlast
    /\ UNCHANGED <<monitor_task, interface_stats, last_stats, now, collected, ticker, nticks>>
    /\ UNCHANGED iperfVars
    /\ UNCHANGED otherVars

\* The awaited task is done: CancelledError is swallowed and stop_monitoring
\* returns.
StopReturn(s) ==
    /\ bwreq[s].pc = "awaiting"
    /\ ~InSync
    /\ AwaitOver(tasks, bwreq[s].task)
    /\ bwreq' = [bwreq EXCEPT ![s] = NoCall]
    /\ bwlast' = EndedBw("stop", TRUE, bwreq[s].task)
    /\ UNCHANGED <<monitoring, monitor_task, tasks, interface_stats, last_stats, now,
                   collected, ticker, nticks>>
    /\ UNCHANGED iperfVars
    /\ UNCHANGED otherVars

\* the task may run its next step: the loop was created or its sleep is over
Runnable(t) == Unfinished(t) /\ ~tasks[t].cancel

\* One iteration of `while self.monitoring`: _collect_stats, then the sleep;
\* the loop returns when the flag is found false.
LoopStep(t, current_time, net_io) ==
    /\ Runnable(t)
    /\ ~InSync
    /\ IF monitoring
       THEN /\ now' = current_time
            /\ CollectStats(current_time, net_io)
            /\ tasks' = [tasks EXCEPT ![t].state = "sleeping"]
            /\ ticker' = t
            /\ nticks' = nticks + 1
            /\ tickLog' = Append(tickLog, "sampled")
       ELSE /\ tasks' = [tasks EXCEPT ![t].state = "done"]
            /\ UNCHANGED <<interface_stats, last_stats, now, collected, ticker, nticks,
                           tickLog>>
    /\ UNCHANGED <<monitoring, monitor_task, bwreq, bwlast>>
    /\ UNCHANGED iperfVars
    /\ UNCHANGED snapshot
    /\ UNCHANGED <<cacheVars, alsVars, toolVars, handlerVars>>

\* An iteration with any clock step and any answer of the OS.
Tick(t) ==
    /\ nticks < MaxTicks
    /\ \E step \in ClockSteps, net_io \in NetIoChoices :
         LoopStep(t, now + step, net_io)

\* an exception of the query that leaves _collect_stats and ends the loop
FailedTickTask_Ends(T, t) == [T EXCEPT ![t].state = "done"]

\* the task after `except Exception` in _collect_stats: on to asyncio.sleep(1)
FailedTickTask(T, t) == [T EXCEPT ![t].state = "sleeping"]

\* An iteration in which psutil.net_io_counters raises: _collect_stats logs
\* the error and returns; the loop sleeps and goes on.
TickFails(t) ==
    /\ Runnable(t)
    /\ ~InSync
    /\ monitoring
    /\ nticks < MaxTicks
    /\ \E step \in ClockSteps : now' = now + step
    /\ tasks' = FailedTickTask(tasks, t)
    /\ ticker' = t
    /\ nticks' = nticks + 1
    /\ tickLog' = Append(tickLog, "failed")
    /\ UNCHANGED <<monitoring, monitor_task, interface_stats, last_stats, collected,
                   bwreq, bwlast>>
    /\ UNCHANGED iperfVars
    /\ UNCHANGED snapshot
    /\ UNCHANGED <<cacheVars, alsVars, toolVars, handlerVars>>

\* The counters of a host under steady traffic.
SteadyIo(current_time) ==
    [i \in Interfaces |->
        [bytes_sent |-> 500 * current_time, bytes_recv |-> 600 * current_time,
         packets_sent |-> 5 * current_time, packets_recv |-> 6 * current_time]]

\* An iteration of a long run: the clock moves one second per iteration.
TickSteady(t) ==
    /\ nticks < HistoryLen + ExtraTicks
    /\ LoopStep(t, now + 1, SteadyIo(now + 1))

\* a loop that catches the cancellation inside `while` and sleeps again
CancelledTask_Sleeps(T, t) == [T EXCEPT ![t].state = "sleeping"]

\* `except asyncio.CancelledError: pass` around the loop (a task cancelled
\* before its first step never enters the coroutine): the task is done
CancelledTask(T, t) == [T EXCEPT ![t].state = "done"]

\* More interfaces of a host: a bridge and a virtual pair, which the filter
\* names, and three it does not name.
BrLan == <<"b", "r", "-", "l", "a", "n">>
Veth1 == <<"v", "e", "t", "h", "1">>
Br0 == <<"b", "r", "0">>
Vlan1 == <<"v", "l", "a", "n", "1">>
VirtualInterfaces == {Lo, Docker0, BrLan, Veth1}
OtherInterfaces == {Eth0, Br0, Vlan1}

\* The answers of the OS on such a host: the loopback and virtual interfaces
\* and any of the others, under steady traffic.
NamedIo(current_time) ==
    {[i \in VirtualInterfaces \cup K |-> SteadyIo(current_time)[Eth0]] :
        K \in SUBSET OtherInterfaces}

\* An iteration on a host whose interfaces come and go.
TickNamed(t) ==
    /\ nticks < MaxTicks
    /\ \E net_io \in NamedIo(now + 1) : LoopStep(t, now + 1, net_io)

\* The cancelled task takes its next step: CancelledError is raised at the
\* sleep (or before the first step) and the task ends.
LoopCancelled(t) ==
    /\ Unfinished(t)
    /\ tasks[t].cancel
    /\ ~InSync
    /\ tasks' = CancelledTask(tasks, t)
    /\ UNCHANGED <<monitoring, monitor_task, interface_stats, last_stats, now, collected,
                   ticker, nticks, bwreq, bwlast>>
    /\ UNCHANGED iperfVars
    /\ UNCHANGED otherVars

(***************************************************************************)
(* BandwidthMonitor.get_current_stats.  A sample is a dict that            *)
(* _collect_stats builds anew in every iteration and changes no more once  *)
(* it is appended, so samples are values here; the lists are objects.      *)
(***************************************************************************)
\* the last n items of q: q[-n:]
LastN(q, n) == SubSeq(q, IF Len(q) > n THEN Len(q) - n + 1 ELSE 1, Len(q))

\* a list that is a view of the live deque
ListOf_View(i, q) == [view |-> TRUE, of |-> i, items |-> <<>>]

\* list(stats_deque): a new list holding the items of the deque
ListOf(i, q) == [view |-> FALSE, of |-> i, items |-> q]

\* history[-30:] of a list
Slice(l, n) ==
    IF l.view THEN l ELSE [l EXCEPT !.items = LastN(l.items, n)]

\* the items a holder of the list l reads from it
Items(l) == IF l.view THEN LastN(interface_stats[l.of], SnapshotLen) ELSE l.items

\* the 'current' entry built from the latest sample
CurrentOf(latest) ==
    [send_rate |-> latest.send_rate, recv_rate |-> latest.recv_rate,
     send_packets_rate |-> latest.send_packets_rate,
     recv_packets_rate |-> latest.recv_packets_rate,
     total_sent |-> latest.bytes_sent, total_recv |-> latest.bytes_recv,
     timestamp |-> latest.timestamp]

\* the dict get_current_stats returns
CurrentStats ==
    [i \in {j \in DOMAIN interface_stats : interface_stats[j] # <<>>} |->
        [current |-> CurrentOf(interface_stats[i][Len(interface_stats[i])]),
         history |-> Slice(ListOf(i, interface_stats[i]), SnapshotLen)]]

\* a reader that indexes the defaultdict, which creates the entry it asks for
GetCurrentStats_Creates ==
    /\ ~InSync
    /\ snapshot.at # nticks
    /\ snapshot' = [at |-> nticks, result |-> CurrentStats]
    /\ interface_stats' = [i \in DOMAIN interface_stats \cup {Lo} |->
                              IF i \in DOMAIN interface_stats THEN interface_stats[i]
                              ELSE <<>>]
    /\ UNCHANGED <<monitoring, monitor_task, tasks, last_stats, now, collected, ticker,
                   nticks, bwreq, bwlast>>
    /\ UNCHANGED tickLog
    /\ UNCHANGED <<cacheVars, alsVars, toolVars, handlerVars>>
    /\ UNCHANGED iperfVars

\* no call of get_current_stats yet
NoSnapshot == [at |-> -1, result |-> <<>>]

\* get_current_stats is called (it has no suspension point); `at` records how
\* many loop iterations had run.
GetCurrentStats ==
    /\ ~InSync
    /\ snapshot.at # nticks
    /\ snapshot' = [at |-> nticks, result |-> CurrentStats]
    /\ UNCHANGED tickLog
    /\ UNCHANGED <<cacheVars, alsVars, toolVars, handlerVars>>
    /\ UNCHANGED iperfVars
    /\ UNCHANGED bwVars

(***************************************************************************)
(* The query handler (api/routes.py) and the key-value store it caches in. *)
(* The store client is synchronous: the handler is suspended only in       *)
(* `await execute(data)`.  The store purges an entry when its TTL has      *)
(* elapsed, which may happen between two round trips of one handler; a     *)
(* synchronous stretch of the handler is taken to last less than one tick. *)
(***************************************************************************)
Targets == {"192.0.2.0/24", "198.51.100.0/24"}
QueryTypes == {"bgp_route"}
Devices == {"r1"}

\* None, as a stored output and as a timestamp
NoOutput == [of |-> <<>>, at |-> -1]
NoTime == -1

\* Query.digest(): a fingerprint of the semantic fields of the query
Digest(data) == <<data.device, data.query_type, data.target>>

\* a cache key that takes in the time of the request
CacheKey_WithTimestamp(data) == <<"hyperglass.query", Digest(data), <<data.timestamp>> >>

\* cache_key = f"hyperglass.query.{data.digest()}"
CacheKey(data) == <<"hyperglass.query", Digest(data)>>

\* cache.get_map(key, field): the stored value, None for a key not stored
GetMap(c, key, field) ==
    IF key \in DOMAIN c THEN c[key][field]
    ELSE IF field = "output" THEN NoOutput ELSE NoTime

\* cache.set_map_item(key, "output", value): a key not stored is created,
\* with no TTL (0)
SetOutput(c, key, value) ==
    [k \in DOMAIN c \cup {key} |->
        IF k # key THEN c[k]
        ELSE IF key \in DOMAIN c THEN [c[key] EXCEPT !.output = value]
        ELSE [output |-> value, timestamp |-> NoTime, ttl |-> 0]]

\* cache.set_map_item(key, "timestamp", value)
SetTimestamp(c, key, value) ==
    [k \in DOMAIN c \cup {key} |->
        IF k # key THEN c[k]
        ELSE IF key \in DOMAIN c THEN [c[key] EXCEPT !.timestamp = value]
        ELSE [output |-> NoOutput, timestamp |-> value, ttl |-> 0]]

\* cache.expire(key, expire_in=ttl): nothing for a key not stored
Expire(c, key, ttl) ==
    IF key \in DOMAIN c THEN [c EXCEPT ![key].ttl = ttl] ELSE c

\* the store without the entry of key
Purge(c, key) == [k \in DOMAIN c \ {key} |-> c[k]]

\* the store one tick later: an entry whose TTL has elapsed is purged
Aged(c) ==
    [k \in {j \in DOMAIN c : c[j].ttl # 1} |->
        IF c[k].ttl = 0 THEN c[k] ELSE [c[k] EXCEPT !.ttl = c[k].ttl - 1]]

\* `if cache_response:`
Truthy(output) == output # NoOutput

\* str(output) / json.loads(output.export_json())
RawOutput(output) == [of |-> output.of, at |-> output.at]

\* a TTL that adds the timeout to what is left
HitExpireIn_Additive(c, key) == c[key].ttl + CacheTimeout

\* expire_in=_state.params.cache.timeout on a hit
HitExpireIn(c, key) == CacheTimeout

\* the timestamp of the hit itself: timestamp = datetime.now(UTC)
HitTimestamp_Now(c, key) == ctime

\* timestamp = cache.get_map(cache_key, "timestamp")
HitTimestamp(c, key) == GetMap(c, key, "timestamp")

\* the time at which the miss responds: timestamp = datetime.now(UTC)
MissTimestamp_Now(data) == ctime

\* timestamp = data.timestamp
MissTimestamp(data) == data.timestamp

NoQuery == [pc |-> "idle", data |-> [target |-> "", query_type |-> "", device |-> "",
                                     timestamp |-> NoTime, id |-> 0],
            starttime |-> 0]

\* the response dict of the handler, with the time of the request (`asked`)
\* and what the initial lookup found
Response(data, key, found, cached, runtime, output, timestamp) ==
    [level |-> "success", asked |-> data.timestamp, id |-> key, found |-> found,
     cached |-> cached, runtime |-> runtime, output |-> output, timestamp |-> timestamp]

NoResponse ==
    [level |-> "none", asked |-> NoTime, id |-> <<>>, found |-> FALSE, cached |-> FALSE,
     runtime |-> 0, output |-> NoOutput, timestamp |-> NoTime]

\* the request body: timestamp and id are those of the request
NewQuery(r, target, query_type, device) ==
    [target |-> target, query_type |-> query_type, device |-> device,
     timestamp |-> ctime, id |-> r]

\* a hit branch that writes the time of the hit into the entry
HitOn_Rewrites(c, data) ==
    LET key == CacheKey(data)
        c1 == SetTimestamp(Expire(c, key, HitExpireIn(c, key)), key, ctime)
    IN
    /\ cache' = c1
    /\ qlast' = Response(data, key, TRUE, TRUE, 0, GetMap(c1, key, "output"),
                         HitTimestamp(c1, key))

\* the hit branch and the rest of the handler, run on the store c
HitOn(c, data) ==
    LET key == CacheKey(data)
        c1 == Expire(c, key, HitExpireIn(c, key))
    IN
    /\ cache' = c1
    /\ qlast' = Response(data, key, TRUE, TRUE, 0, GetMap(c1, key, "output"),
                         HitTimestamp(c1, key))

\* A request whose initial lookup finds a stored output.
QueryHit(r) ==
    /\ qreq[r].pc = "idle"
    /\ \E target \in Targets, query_type \in QueryTypes, device \in Devices :
         LET data == NewQuery(r, target, query_type, device) IN
         /\ Truthy(GetMap(cache, CacheKey(data), "output"))
         /\ HitOn(cache, data)
    /\ UNCHANGED <<ctime, qreq, origin>>
    /\ UNCHANGED <<iperfVars, bwVars, samplerReadVars, alsVars, toolVars, handlerVars>>

\* A request whose initial lookup finds a stored output that the store purges,
\* its TTL elapsed, before the handler's next round trip.
QueryHitExpired(r) ==
    /\ qreq[r].pc = "idle"
    /\ \E target \in Targets, query_type \in QueryTypes, device \in Devices :
         LET data == NewQuery(r, target, query_type, device)
             key == CacheKey(data)
         IN
         /\ Truthy(GetMap(cache, key, "output"))
         /\ cache[key].ttl = 1
         /\ HitOn(Purge(cache, key), data)
         /\ origin' = Purge(origin, key)
    /\ UNCHANGED <<ctime, qreq>>
    /\ UNCHANGED <<iperfVars, bwVars, samplerReadVars, alsVars, toolVars, handlerVars>>

\* A request whose initial lookup finds a stored output and whose call of
\* cache.expire raises (the store is unreachable): the handler has no except
\* clause around it, so the exception ends the request.
QueryHitExpireFails(r) ==
    /\ qreq[r].pc = "idle"
    /\ \E target \in Targets, query_type \in QueryTypes, device \in Devices :
         LET data == NewQuery(r, target, query_type, device)
             key == CacheKey(data)
         IN
         /\ Truthy(GetMap(cache, key, "output"))
         /\ qlast' = [NoResponse EXCEPT !.level = "error", !.asked = data.timestamp,
                                        !.id = key, !.found = TRUE]
    /\ UNCHANGED <<cache, ctime, qreq, origin>>
    /\ UNCHANGED <<iperfVars, bwVars, samplerReadVars, alsVars, toolVars, handlerVars>>

\* A request whose initial lookup finds nothing: up to `await execute(data)`.
QueryMiss(r) ==
    /\ qreq[r].pc = "idle"
    /\ \E target \in Targets, query_type \in QueryTypes, device \in Devices :
         LET data == NewQuery(r, target, query_type, device) IN
         /\ ~Truthy(GetMap(cache, CacheKey(data), "output"))
         /\ qreq' = [qreq EXCEPT ![r] = [pc |-> "executing", data |-> data,
                                         starttime |-> ctime]]
    /\ UNCHANGED <<cache, ctime, qlast, origin>>
    /\ UNCHANGED <<iperfVars, bwVars, samplerReadVars, alsVars, toolVars, handlerVars>>

\* a miss branch that leaves an entry another request has written meanwhile
Populated_IfAbsent(c, key, raw_output, timestamp) ==
    IF key \in DOMAIN c THEN c
    ELSE Expire(SetTimestamp(SetOutput(c, key, raw_output), key, timestamp), key, CacheTimeout)

\* what the miss branch writes to the store
Populated(c, key, raw_output, timestamp) ==
    Expire(SetTimestamp(SetOutput(c, key, raw_output), key, timestamp), key, CacheTimeout)

\* execute(data) returns an output (never an empty one): the entry is written
\* and the response is built from what line 147 reads back.
ExecuteDone(r) ==
    /\ qreq[r].pc = "executing"
    /\ LET data == qreq[r].data
           key == CacheKey(data)
           output == [of |-> Digest(data), at |-> ctime]
           timestamp == MissTimestamp(data)
           c1 == Populated(cache, key, RawOutput(output), timestamp)
           response == Response(data, key, FALSE, FALSE, ctime - qreq[r].starttime,
                                GetMap(c1, key, "output"), timestamp)
       IN
       /\ cache' = c1
       /\ qlast' = response
       /\ origin' = [k \in DOMAIN origin \cup {key} |->
                        IF k = key THEN [output |-> response.output,
                                         timestamp |-> response.timestamp]
                        ELSE origin[k]]
    /\ qreq' = [qreq EXCEPT ![r] = NoQuery]
    /\ UNCHANGED ctime
    /\ UNCHANGED <<iperfVars, bwVars, samplerReadVars, alsVars, toolVars, handlerVars>>

\* a handler that populates the entry before it looks at the output
ExecuteFails_Populates(r) ==
    /\ qreq[r].pc = "executing"
    /\ qlast' = [NoResponse EXCEPT !.level = "danger", !.asked = qreq[r].data.timestamp,
                                   !.id = CacheKey(qreq[r].data)]
    /\ cache' = Populated(cache, CacheKey(qreq[r].data), NoOutput,
                          MissTimestamp(qreq[r].data))
    /\ qreq' = [qreq EXCEPT ![r] = NoQuery]
    /\ UNCHANGED <<ctime, origin>>
    /\ UNCHANGED <<iperfVars, bwVars, samplerReadVars, alsVars, toolVars, handlerVars>>

\* execute(data) returns None: HyperglassError, nothing is cached.
ExecuteFails(r) ==
    /\ qreq[r].pc = "executing"
    /\ qlast' = [NoResponse EXCEPT !.level = "danger", !.asked = qreq[r].data.timestamp,
                                   !.id = CacheKey(qreq[r].data)]
    /\ qreq' = [qreq EXCEPT ![r] = NoQuery]
    /\ UNCHANGED <<cache, ctime, origin>>
    /\ UNCHANGED <<iperfVars, bwVars, samplerReadVars, alsVars, toolVars, handlerVars>>

\* One tick of the clock: the store ages its entries.
CacheTick ==
    /\ ctime < MaxTime
    /\ ctime' = ctime + 1
    /\ cache' = Aged(cache)
    /\ origin' = [k \in DOMAIN origin \cap DOMAIN Aged(cache) |-> origin[k]]
    /\ UNCHANGED <<qreq, qlast>>
    /\ UNCHANGED <<iperfVars, bwVars, samplerReadVars, alsVars, toolVars, handlerVars>>

(***************************************************************************)
(* shutdown_als_features: stop the sampler, then stop every recorded       *)
(* iperf3 server.  Each of the two steps has its own try/except.           *)
(***************************************************************************)
RecordedProcs(d) == {d[i].proc : i \in 1..Len(d)}

\* `for port in list(iperf3_manager.processes.keys())`, guarded by
\* network_tools.enabled and network_tools.iperf3_enabled
SdIperf(r, call) ==
    IF ~call.iperf
    THEN /\ req' = [req EXCEPT ![r] = [call EXCEPT !.pc = "done", !.result = "ok"]]
         /\ UNCHANGED <<processes, procs>>
    ELSE LET nx == SdAdvance(processes, Keys(processes)) IN
         /\ req' = [req EXCEPT ![r] =
                       [call EXCEPT !.pc = nx.pc, !.result = nx.result, !.port = nx.port,
                                    !.proc = nx.proc, !.todo = nx.todo,
                                    !.seen = RecordedProcs(processes)]]
         /\ procs' = IF nx.pc = "stop_wait"
                     THEN [procs EXCEPT ![nx.proc].term = TRUE]
                     ELSE procs
         /\ UNCHANGED processes

\* The shutdown handler runs once the server has stopped serving requests.
Shutdown(r) ==
    /\ CanBegin(r)
    /\ \A q \in Reqs : req[q].pc = "idle"
    /\ \A s \in Callers : bwreq[s].pc = "idle"
    /\ \E als_on \in BOOLEAN, bw_on \in BOOLEAN, iperf_on \in BOOLEAN :
         LET call == [NoReq EXCEPT !.op = "shutdown", !.iperf = iperf_on] IN
         IF ~als_on
         THEN /\ req' = [req EXCEPT ![r] = [call EXCEPT !.pc = "done", !.result = "skipped",
                                                        !.iperf = FALSE]]
              /\ UNCHANGED <<processes, procs, monitoring, tasks>>
         ELSE IF bw_on /\ monitoring
         THEN /\ monitoring' = FALSE
              /\ IF monitor_task # 0 /\ ~AwaitOver(tasks, monitor_task)
                 THEN /\ tasks' = Cancel(tasks, monitor_task)
                      /\ req' = [req EXCEPT ![r] = [call EXCEPT !.pc = "sd_await_monitor",
                                                                !.task = monitor_task]]
                      /\ UNCHANGED <<processes, procs>>
                 ELSE /\ UNCHANGED tasks
                      /\ SdIperf(r, call)
         ELSE /\ UNCHANGED <<monitoring, tasks>>
              /\ SdIperf(r, call)
    /\ UNCHANGED <<attempt, lastCall, monitor_task, interface_stats, last_stats,
                   now, collected, ticker, nticks, bwreq, bwlast>>
    /\ UNCHANGED otherVars

\* stop_monitoring returned inside the shutdown handler.
SdMonitorStopped(r) ==
    /\ req[r].pc = "sd_await_monitor"
    /\ AwaitOver(tasks, req[r].task)
    /\ SdIperf(r, req[r])
    /\ UNCHANGED <<attempt, lastCall>>
    /\ UNCHANGED bwVars
    /\ UNCHANGED otherVars

(***************************************************************************)
(* ALSFeatures: the feature switches (models/config/als_features.py).      *)
(* The object holds a master switch and one sub-configuration per feature,  *)
(* each with its own switch; callers flip the switches by assignment.      *)
(***************************************************************************)
FeatureNames == {"speedtest", "network_tools", "bandwidth"}

\* the names a caller passes: the features, another field of the object, a
\* method of the object, and a name the object does not have
AttrNames == FeatureNames \cup {"enabled", "is_feature_enabled", "iperf3"}

\* ALSFeatures(): every switch defaults to True
ALSFeatures ==
    [enabled |-> TRUE,
     speedtest |-> [enabled |-> TRUE],
     network_tools |-> [enabled |-> TRUE],
     bandwidth |-> [enabled |-> TRUE]]

None == [type |-> "none"]

\* getattr(self, feature, None)
GetAttr(self, name) ==
    IF name \in FeatureNames THEN [type |-> "model", enabled |-> self[name].enabled]
    ELSE IF name = "enabled" THEN [type |-> "bool", value |-> self.enabled]
    ELSE IF name = "is_feature_enabled" THEN [type |-> "method"]
    ELSE None

\* the truth value of an attribute
TruthyAttr(x) ==
    CASE x.type = "model" -> TRUE
      [] x.type = "bool" -> x.value
      [] x.type = "method" -> TRUE
      [] x.type = "none" -> FALSE

\* hasattr(feature_config, 'enabled')
HasEnabled(x) == x.type = "model"

is_feature_enabled_NoMaster(self, feature) ==
    LET feature_config == GetAttr(self, feature) IN
    IF TruthyAttr(feature_config) /\ HasEnabled(feature_config)
    THEN feature_config.enabled
    ELSE FALSE

is_feature_enabled(self, feature) ==
    IF ~self.enabled THEN FALSE
    ELSE LET feature_config == GetAttr(self, feature) IN
         IF TruthyAttr(feature_config) /\ HasEnabled(feature_config)
         THEN feature_config.enabled
         ELSE FALSE

NoCheck == [feature |-> "", on |-> ALSFeatures, result |-> FALSE]

\* config.enabled = b
SetEnabled(b) ==
    /\ als_features.enabled # b
    /\ als_features' = [als_features EXCEPT !.enabled = b]
    /\ UNCHANGED <<checked, validated>>
    /\ UNCHANGED <<iperfVars, bwVars, samplerReadVars, cacheVars, toolVars, handlerVars>>

\* config.<feature>.enabled = b
SetFeatureEnabled(f, b) ==
    /\ als_features[f].enabled # b
    /\ als_features' = [als_features EXCEPT ![f].enabled = b]
    /\ UNCHANGED <<checked, validated>>
    /\ UNCHANGED <<iperfVars, bwVars, samplerReadVars, cacheVars, toolVars, handlerVars>>

\* a call config.is_feature_enabled(f)
IsFeatureEnabled(f) ==
    /\ checked' = [feature |-> f, on |-> als_features,
                   result |-> is_feature_enabled(als_features, f)]
    /\ UNCHANGED <<als_features, validated>>
    /\ UNCHANGED <<iperfVars, bwVars, samplerReadVars, cacheVars, toolVars, handlerVars>>

(***************************************************************************)
(* validate_als_config (util/als_config_validator.py) and the field         *)
(* constraints of the configuration models it builds                       *)
(* (models/config/als_features.py).  A Python value is a record with its   *)
(* type; a string that the code takes apart is the sequence of its         *)
(* characters.                                                             *)
(***************************************************************************)
Dict(items) == [type |-> "dict", items |-> items]
EmptyItems == [k \in {} |-> TRUE]

\* the outcome of an expression: a value, or an exception on its way up
Ok(value) == [raised |-> FALSE, value |-> value]
Raise(exc) == [raised |-> TRUE, exc |-> exc]

\* d.get(key, default)
DictGet(d, key, default) ==
    IF d.type # "dict" THEN Raise("AttributeError")
    ELSE IF key \in DOMAIN d.items THEN Ok(d.items[key])
    ELSE Ok(default)

\* the truth value of a dictionary or of another non-empty container
TruthyDict(d) == d.type # "dict" \/ DOMAIN d.items # {}

\* a keyword argument of a model, or the default of its field
FieldOf(items, name, default) == IF name \in DOMAIN items THEN items[name] ELSE default

valid_units == << <<"K", "B">>, <<"M", "B">>, <<"G", "B">> >>

\* size.endswith(unit)
EndsWith(size, unit) ==
    /\ Len(size) >= Len(unit)
    /\ SubSeq(size, Len(size) - Len(unit) + 1, Len(size)) = unit

\* any(size.endswith(unit) for unit in valid_units)
HasValidUnit(size) == \E i \in DOMAIN valid_units : EndsWith(size, valid_units[i])

\* size[:-2]
DropLastTwo(size) == SubSeq(size, 1, Len(size) - 2)

DigitChars == <<"0", "1", "2", "3", "4", "5", "6", "7", "8", "9">>
IsDigit(c) == \E i \in DOMAIN DigitChars : DigitChars[i] = c
DigitValue(c) == (CHOOSE i \in DOMAIN DigitChars : DigitChars[i] = c) - 1

RECURSIVE DigitsValue(_)
DigitsValue(s) ==
    IF s = <<>> THEN 0
    ELSE 10 * DigitsValue(SubSeq(s, 1, Len(s) - 1)) + DigitValue(s[Len(s)])

\* int(s) for a string: an optional sign and at least one decimal digit
IntOf(s) ==
    LET signed == s # <<>> /\ s[1] \in {"+", "-"}
        digits == IF signed THEN Tail(s) ELSE s
    IN
    IF digits = <<>> \/ \E i \in DOMAIN digits : ~IsDigit(digits[i])
    THEN Raise("ValueError")
    ELSE Ok(IF signed /\ s[1] = "-" THEN 0 - DigitsValue(digits) ELSE DigitsValue(digits))

\* SpeedTestConfig.validate_file_sizes: TRUE when it accepts the list
validate_file_sizes(v) ==
    \A i \in DOMAIN v : HasValidUnit(v[i]) /\ ~IntOf(DropLastTwo(v[i])).raised

\* NetworkToolsConfig.validate_port_range: TRUE when it accepts the pair
validate_port_range(v) ==
    LET start == v[1]
        end == v[2]
    IN ~(start >= end) /\ ~(start < 1024 \/ end > 65535)

\* Field(ge=lo, le=hi)
GeLe(x, lo, hi) == x >= lo /\ x <= hi

\* SpeedTestConfig(**items): the fields the validator reads, with their defaults
SpeedTestConfig(items) ==
    [enabled |-> FieldOf(items, "enabled", TRUE),
     file_sizes |-> FieldOf(items, "file_sizes",
                            << <<"1", "M", "B">>, <<"1", "0", "M", "B">>,
                               <<"1", "0", "0", "M", "B">>, <<"1", "G", "B">> >>),
     chunk_size |-> FieldOf(items, "chunk_size", 4)]

SpeedTestAccepted(c) ==
    validate_file_sizes(c.file_sizes) /\ GeLe(c.chunk_size, 1, 1024)

NetworkToolsConfig(items) ==
    [enabled |-> FieldOf(items, "enabled", TRUE),
     iperf3_port_range |-> FieldOf(items, "iperf3_port_range", <<30000, 31000>>),
     max_ping_count |-> FieldOf(items, "max_ping_count", 20),
     max_traceroute_hops |-> FieldOf(items, "max_traceroute_hops", 64),
     ping_timeout |-> FieldOf(items, "ping_timeout", 30),
     traceroute_timeout |-> FieldOf(items, "traceroute_timeout", 60)]

NetworkToolsAccepted(c) ==
    /\ validate_port_range(c.iperf3_port_range)
    /\ GeLe(c.max_ping_count, 1, 100)
    /\ GeLe(c.max_traceroute_hops, 1, 255)
    /\ GeLe(c.ping_timeout, 5, 120)
    /\ GeLe(c.traceroute_timeout, 10, 300)

BandwidthConfig(items) ==
    [enabled |-> FieldOf(items, "enabled", TRUE),
     update_interval |-> FieldOf(items, "update_interval", 1),
     history_length |-> FieldOf(items, "history_length", 60)]

BandwidthAccepted(c) ==
    GeLe(c.update_interval, 1, 60) /\ GeLe(c.history_length, 10, 3600)

\* ALSFeatures(**als_config): the object, or the exception the construction raises
BuildALSFeatures(als_config) ==
    IF als_config.type # "dict" THEN Raise("TypeError")
    ELSE
    LET st == FieldOf(als_config.items, "speedtest", Dict(EmptyItems))
        nt == FieldOf(als_config.items, "network_tools", Dict(EmptyItems))
        bw == FieldOf(als_config.items, "bandwidth", Dict(EmptyItems))
    IN
    IF st.type # "dict" \/ nt.type # "dict" \/ bw.type # "dict"
    THEN Raise("ValidationError")
    ELSE
    LET speedtest == SpeedTestConfig(st.items)
        network_tools == NetworkToolsConfig(nt.items)
        bandwidth == BandwidthConfig(bw.items)
    IN
    IF /\ SpeedTestAccepted(speedtest)
       /\ NetworkToolsAccepted(network_tools)
       /\ BandwidthAccepted(bandwidth)
    THEN Ok([enabled |-> FieldOf(als_config.items, "enabled", TRUE),
             speedtest |-> speedtest,
             network_tools |-> network_tools,
             bandwidth |-> bandwidth])
    ELSE Raise("ValidationError")

IfError(cond, message) == IF cond THEN <<message>> ELSE <<>>

\* the loop over config.file_sizes
RECURSIVE FileSizeErrors(_)
FileSizeErrors(sizes) ==
    IF sizes = <<>> THEN <<>>
    ELSE LET size == Head(sizes)
             size_num == IntOf(DropLastTwo(size))
         IN
         (IF ~HasValidUnit(size) THEN <<"Invalid file size format">>
          ELSE IF size_num.raised THEN <<"Invalid file size number">>
          ELSE IfError(size_num.value <= 0, "File size must be positive"))
         \o FileSizeErrors(Tail(sizes))

\* _validate_speedtest_config (the check of max_file_size only logs a warning)
validate_speedtest_config(config) ==
    IF ~config.enabled THEN <<>>
    ELSE FileSizeErrors(config.file_sizes)
         \o IfError(config.chunk_size < 1 \/ config.chunk_size > 1024,
                    "Chunk size must be between 1 and 1024 KB")

\* _validate_network_tools_config
validate_network_tools_config(config) ==
    IF ~config.enabled THEN <<>>
    ELSE LET start_port == config.iperf3_port_range[1]
             end_port == config.iperf3_port_range[2]
         IN
         IfError(start_port >= end_port, "iPerf3 start port must be less than end port")
         \o IfError(start_port < 1024 \/ end_port > 65535,
                    "iPerf3 ports must be between 1024 and 65535")
         \o IfError(config.max_ping_count < 1 \/ config.max_ping_count > 100,
                    "Max ping count must be between 1 and 100")
         \o IfError(config.max_traceroute_hops < 1 \/ config.max_traceroute_hops > 255,
                    "Max traceroute hops must be between 1 and 255")
         \o IfError(config.ping_timeout < 5 \/ config.ping_timeout > 120,
                    "Ping timeout must be between 5 and 120 seconds")
         \o IfError(config.traceroute_timeout < 10 \/ config.traceroute_timeout > 300,
                    "Traceroute timeout must be between 10 and 300 seconds")

\* _validate_bandwidth_config (excluded_interfaces is a list once the model
\* has accepted it)
validate_bandwidth_config(config) ==
    IF ~config.enabled THEN <<>>
    ELSE IfError(config.update_interval < 1 \/ config.update_interval > 60,
                 "Update interval must be between 1 and 60 seconds")
         \o IfError(config.history_length < 10 \/ config.history_length > 3600,
                    "History length must be between 10 and 3600 seconds")

\* what a call of validate_als_config gives its caller
Returned(is_valid, errors) == [raised |-> FALSE, is_valid |-> is_valid, errors |-> errors]

Caught_Silent(errors, e) == Returned(FALSE, errors)

\* except Exception as e
Caught(errors, e) ==
    Returned(FALSE, Append(errors, <<"ALS configuration validation error", e>>))

validate_als_config(config_data) ==
    LET errors == <<>>
        als_config == DictGet(config_data, "als_features", Dict(EmptyItems))
    IN
    IF als_config.raised THEN Caught(errors, als_config.exc)
    ELSE IF ~TruthyDict(als_config.value) THEN Returned(TRUE, <<>>)
    ELSE
    LET als == BuildALSFeatures(als_config.value) IN
    IF als.raised THEN Caught(errors, als.exc)
    ELSE
    LET errors1 == errors \o validate_speedtest_config(als.value.speedtest)
        errors2 == errors1 \o validate_network_tools_config(als.value.network_tools)
        errors3 == errors2 \o validate_bandwidth_config(als.value.bandwidth)
    IN
    IF errors3 # <<>> THEN Returned(FALSE, errors3)
    ELSE Returned(TRUE, <<>>)

\* The configurations a caller passes.
FileSizeLists ==
    { << <<"1", "M", "B">>, <<"1", "0", "M", "B">> >>,
      << <<"1", "G", "B">> >>,
      << <<"0", "M", "B">> >>,
      << <<"1", "M", "B">>, <<"-", "1", "K", "B">> >>,
      << <<"1", "X", "B">> >>,
      << <<"x", "M", "B">> >>,
      << <<"M", "B">> >>,
      << <<"1">> >> }

SpeedtestValues ==
    {Dict([enabled |-> e, file_sizes |-> f, chunk_size |-> c]) :
        e \in BOOLEAN, f \in FileSizeLists, c \in {0, 4, 1025}}
    \cup {[type |-> "str"]}

NetworkToolsValues ==
    {Dict([enabled |-> e, iperf3_port_range |-> p, max_ping_count |-> n]) :
        e \in BOOLEAN,
        p \in {<<30000, 31000>>, <<31000, 30000>>, <<80, 31000>>},
        n \in {0, 20}}

BandwidthValues ==
    {Dict([enabled |-> e, update_interval |-> u, history_length |-> h]) :
        e \in BOOLEAN, u \in {0, 1, 61}, h \in {5, 60}}

SectionKeys == {"enabled", "speedtest", "network_tools", "bandwidth"}

FullSections ==
    [enabled : {TRUE}, speedtest : SpeedtestValues,
     network_tools : NetworkToolsValues, bandwidth : BandwidthValues]

Sections ==
    {Dict([k \in K |-> full[k]]) : K \in SUBSET SectionKeys, full \in FullSections}
    \cup {[type |-> "list"]}

ConfigDatas ==
    {None, Dict(EmptyItems)} \cup {Dict([als_features |-> s]) : s \in Sections}

NoValidation == [called |-> FALSE, config_data |-> None, result |-> Returned(TRUE, <<>>)]

\* a call validate_als_config(config_data)
ValidateAlsConfig ==
    /\ ~validated.called
    /\ \E config_data \in ConfigDatas :
         validated' = [called |-> TRUE, config_data |-> config_data,
                       result |-> validate_als_config(config_data)]
    /\ UNCHANGED <<als_features, checked>>
    /\ UNCHANGED <<iperfVars, bwVars, samplerReadVars, cacheVars, toolVars, handlerVars>>

(***************************************************************************)
(* check_system_requirements (util/als_config_validator.py).  The tools    *)
(* installed on the host are the environment.                              *)
(***************************************************************************)
\* required_tools, in the order of the dictionary
required_tools ==
    << <<"ping", "ping command for network connectivity tests">>,
       <<"ping6", "ping6 command for IPv6 connectivity tests">>,
       <<"traceroute", "traceroute command for network path analysis">>,
       <<"traceroute6", "traceroute6 command for IPv6 path analysis">>,
       <<"iperf3", "iperf3 command for bandwidth testing">> >>

\* the tools a host may have: the required ones and one that is not required
Tools == {required_tools[i][1] : i \in DOMAIN required_tools} \cup {"mtr"}

\* shutil.which(tool), as a truth value
Which(on, tool) == tool \in on

\* the for loop over required_tools.items(), from item i on
RECURSIVE MissingFrom(_, _)
MissingFrom(on, i) ==
    IF i > Len(required_tools) THEN <<>>
    ELSE (IF ~Which(on, required_tools[i][1]) THEN <<required_tools[i]>> ELSE <<>>)
         \o MissingFrom(on, i + 1)

check_system_requirements_FirstOnly(on) ==
    LET missing_tools == MissingFrom(on, 1) IN
    IF missing_tools # <<>> THEN <<FALSE, <<Head(missing_tools)>> >>
    ELSE <<TRUE, <<>> >>

check_system_requirements(on) ==
    LET missing_tools == MissingFrom(on, 1) IN
    IF missing_tools # <<>> THEN <<FALSE, missing_tools>>
    ELSE <<TRUE, <<>> >>

NoRequirements == [called |-> FALSE, on |-> {}, requirements_met |-> FALSE,
                   missing_tools |-> <<>>]

\* the host gains or loses a tool
Install(tool) ==
    /\ tool \notin path
    /\ path' = path \cup {tool}
    /\ UNCHANGED requirements
    /\ UNCHANGED <<iperfVars, bwVars, samplerReadVars, cacheVars, alsVars, handlerVars>>

Uninstall(tool) ==
    /\ tool \in path
    /\ path' = path \ {tool}
    /\ UNCHANGED requirements
    /\ UNCHANGED <<iperfVars, bwVars, samplerReadVars, cacheVars, alsVars, handlerVars>>

\* a call check_system_requirements()
CheckSystemRequirements ==
    /\ LET result == check_system_requirements(path) IN
       requirements' = [called |-> TRUE, on |-> path, requirements_met |-> result[1],
                        missing_tools |-> result[2]]
    /\ UNCHANGED path
    /\ UNCHANGED <<iperfVars, bwVars, samplerReadVars, cacheVars, alsVars, handlerVars>>

(***************************************************************************)
(* The speed-test downloads (api/speedtest.py): the handlers announce a    *)
(* Content-Length and hand the server an async generator; the server       *)
(* resumes the generator for each chunk.                                    *)
(***************************************************************************)
\* the most chunks of a download that is followed to its end
MaxChunks == 16384

\* a query parameter: given with a value, or absent
Given(value) == [given |-> TRUE, value |-> value]
Absent == [given |-> FALSE, value |-> <<>>]

\* request.query_params.get(name, default)
QueryGet(param, default) == IF param.given THEN param.value ELSE default

Min(a, b) == IF a <= b THEN a ELSE b

\* the values of `size` and `ckSize` a client sends
SizeParams == {Absent, Given(<<"0">>), Given(<<"1">>), Given(<<"2">>),
               Given(<<"1", "0", "0", "0">>), Given(<<"1", "0", "0", "1">>),
               Given(<<"x">>)}
CkSizeParams == {Absent, Given(<<"3">>), Given(<<"0">>), Given(<<"-", "1">>),
                 Given(<<"1", "0", "2", "4">>), Given(<<"x">>)}

\* the file names a client asks for
FileNames == {<<"1", "M", "B", ".", "b", "i", "n">>,
              <<"2", "M", "B", ".", "b", "i", "n">>,
              <<"0", "M", "B", ".", "b", "i", "n">>,
              <<"M", "B", ".", "b", "i", "n">>,
              <<"1", "K", "B", ".", "b", "i", "n">>,
              <<"1", "M", "B", ".", "t", "x", "t">>,
              <<"1", "G", "B", ".", "b", "i", "n">>,
              <<"1", "1", "G", "B", ".", "b", "i", "n">>}

NoDownload == [pc |-> "none", handler |-> "none", status |-> 0, content_length |-> 0,
               chunk_bytes |-> 0, bytes_sent |-> 0, chunk |-> 0]

\* HTTPException(status_code): no stream
Refused(handler, status) == [NoDownload EXCEPT !.pc = "refused", !.handler = handler,
                                              !.status = status]

\* Response(content=generate_data(), headers={"Content-Length": str(total_bytes)})
Streaming(handler, total_bytes, chunk_bytes) ==
    [NoDownload EXCEPT !.pc = "streaming", !.handler = handler, !.status = 200,
                       !.content_length = total_bytes, !.chunk_bytes = chunk_bytes]

\* size_mb = int(size) and the range test, inside the try: the size in MB, or 0
\* when the handler raises HTTPException(400)
size_mb_of(size) ==
    LET parsed == IntOf(size) IN
    IF parsed.raised THEN 0
    ELSE IF parsed.value <= 0 \/ parsed.value > 1000 THEN 0
    ELSE parsed.value

\* handle_speedtest_download up to `return Response(...)`
speedtest_download(size, ckSize) ==
    LET chunk_size == IntOf(ckSize)
        size_mb == size_mb_of(size)
    IN
    IF chunk_size.raised THEN Refused("download", 500)
    ELSE IF size_mb = 0 THEN Refused("download", 400)
    ELSE Streaming("download", size_mb * 1024 * 1024, chunk_size.value * 1024)

\* filename[:-4]
DropLastFour(filename) == SubSeq(filename, 1, Len(filename) - 4)

\* the parsing of handle_speedtest_file: the size in MB, or 0 when the handler
\* raises HTTPException(404)
file_size_mb(filename) ==
    IF ~EndsWith(filename, <<".", "b", "i", "n">>) THEN 0
    ELSE LET size_str == DropLastFour(filename)
             number == IntOf(DropLastTwo(size_str))
             size_mb == IF number.raised THEN 0
                        ELSE IF EndsWith(size_str, <<"M", "B">>) THEN number.value
                        ELSE number.value * 1024
         IN
         IF ~(EndsWith(size_str, <<"M", "B">>) \/ EndsWith(size_str, <<"G", "B">>)) THEN 0
         ELSE IF size_mb <= 0 \/ size_mb > 10240 THEN 0
         ELSE size_mb

\* handle_speedtest_file up to `return Response(...)`
speedtest_file(filename) ==
    LET size_mb == file_size_mb(filename) IN
    IF size_mb = 0 THEN Refused("file", 404)
    ELSE Streaming("file", size_mb * 1024 * 1024, 64 * 1024)

\* the download is followed when it ends within MaxChunks chunks, or never
Followed(d) ==
    IF d.pc # "streaming" \/ d.chunk_bytes <= 0 THEN TRUE
    ELSE d.content_length \div d.chunk_bytes <= MaxChunks

NoStream == download.pc \in {"none", "refused", "finished", "aborted"}

\* GET /speedtest/download?size=..&ckSize=..
SpeedtestDownload ==
    /\ NoStream
    /\ \E size \in SizeParams, ckSize \in CkSizeParams :
         LET d == speedtest_download(QueryGet(size, <<"1", "0">>), QueryGet(ckSize, <<"4">>)) IN
         /\ Followed(d)
         /\ download' = d
    /\ UNCHANGED <<toolreq, toolproc, toollast>>
    /\ UNCHANGED <<iperfVars, bwVars, samplerReadVars, cacheVars, alsVars, toolVars>>

\* GET /speedtest/files/{filename}
SpeedtestFile ==
    /\ NoStream
    /\ \E filename \in FileNames :
         LET d == speedtest_file(filename) IN
         /\ Followed(d)
         /\ download' = d
    /\ UNCHANGED <<toolreq, toolproc, toollast>>
    /\ UNCHANGED <<iperfVars, bwVars, samplerReadVars, cacheVars, alsVars, toolVars>>

\* remaining = min(chunk_bytes, total_bytes - bytes_sent)
Remaining(d) == Min(d.chunk_bytes, d.content_length - d.bytes_sent)

\* The server resumes the generator: the test of `while`, then up to `yield`.
\* secrets.token_bytes raises ValueError for a negative length; b'\x00' * n is
\* empty for one.
GenerateNext ==
    /\ download.pc = "streaming"
    /\ LET remaining == Remaining(download) IN
       IF download.bytes_sent >= download.content_length
       THEN download' = [download EXCEPT !.pc = "finished"]
       ELSE IF remaining < 0 /\ download.handler = "download"
       THEN download' = [download EXCEPT !.pc = "aborted"]
       ELSE LET chunk == IF remaining < 0 THEN 0 ELSE remaining IN
            download' = [download EXCEPT !.pc = "yielded", !.chunk = chunk,
                                         !.bytes_sent = download.bytes_sent + chunk]
    /\ UNCHANGED <<toolreq, toolproc, toollast>>
    /\ UNCHANGED <<iperfVars, bwVars, samplerReadVars, cacheVars, alsVars, toolVars>>

\* The server has sent the chunk and asks for the next one: the generator
\* resumes after `yield`, sleeps 1 ms and is back at the test of `while`.
GenerateSleep ==
    /\ download.pc = "yielded"
    /\ download' = [download EXCEPT !.pc = "streaming"]
    /\ UNCHANGED <<toolreq, toolproc, toollast>>
    /\ UNCHANGED <<iperfVars, bwVars, samplerReadVars, cacheVars, alsVars, toolVars>>

(***************************************************************************)
(* The ping and traceroute handlers (api/network_tools.py): validation of  *)
(* the query parameters, the helper process and the wait for its output.   *)
(***************************************************************************)
\* the helper processes of ping and traceroute that are followed
MaxHelpers == 2
HelperIds == 1..MaxHelpers

ToolNames == {"ping", "traceroute"}

\* the values of `target`, of `count` / `max_hops` and of `ipv6` a client sends
TargetParams == {Absent, Given(<<>>), Given(<<"1", ".", "1">>), Given(<<"a", "-", "b">>),
                 Given(<<".", ":">>), Given(<<"1", ";", "x">>)}
NumberParams == {Absent, Given(<<"0">>), Given(<<"1">>), Given(<<"2", "0">>),
                 Given(<<"2", "1">>), Given(<<"6", "4">>), Given(<<"6", "5">>),
                 Given(<<"x">>)}
Ipv6Params == {Absent, Given(<<"T", "r", "u", "e">>), Given(<<"1">>)}

\* str.lower() on the letters that occur
LowerChar(c) == IF c = "T" THEN "t" ELSE c
Lower(s) == [i \in DOMAIN s |-> LowerChar(s[i])]

\* target.replace(".", "").replace(":", "").replace("-", "")
RECURSIVE Stripped(_)
Stripped(target) ==
    IF target = <<>> THEN <<>>
    ELSE IF Head(target) \in {".", ":", "-"} THEN Stripped(Tail(target))
    ELSE <<Head(target)>> \o Stripped(Tail(target))

LetterChars == {"a", "b", "c", "x"}

\* str.isalnum(): at least one character, and all of them letters or digits
IsAlnum(s) == s # <<>> /\ \A i \in DOMAIN s : IsDigit(s[i]) \/ s[i] \in LetterChars

\* target.replace(".", "").replace(":", "").replace("-", "").isalnum()
FormatOk(target) == IsAlnum(Stripped(target))

\* the default and the accepted range of count (ping) and max_hops (traceroute)
NumberDefault(tool) == IF tool = "ping" THEN <<"4">> ELSE <<"3", "0">>
NumberMax(tool) == IF tool = "ping" THEN 20 ELSE 64

\* the commands
Command(tool, ipv6) ==
    IF tool = "ping" THEN (IF ipv6 THEN "ping6" ELSE "ping")
    ELSE (IF ipv6 THEN "traceroute6" ELSE "traceroute")

\* the lines of the handler before `try`: 0 when the request goes on to the
\* command, or the status of the error it ends with; int() of the number is
\* evaluated first, outside any try, and its ValueError is an unhandled
\* exception of the handler (500)
Validation(tool, target, number) ==
    LET n == IntOf(QueryGet(number, NumberDefault(tool))) IN
    IF n.raised THEN 500
    ELSE IF ~target.given \/ target.value = <<>> THEN 400
    ELSE IF n.value < 1 \/ n.value > NumberMax(tool) THEN 400
    ELSE IF ~FormatOk(target.value) THEN 400
    ELSE 0

NoToolReq == [pc |-> "idle", tool |-> "none", target |-> Absent, number |-> Absent,
              proc |-> 0]
NoHelper == [state |-> "none", cmd |-> "none"]
NoToolProc == [p \in HelperIds |-> NoHelper]
NoToolResponse == [tool |-> "none", status |-> 0, target |-> Absent, number |-> Absent,
                   proc |-> 0]

ToolResponse(tool, status, target, number, proc) ==
    [tool |-> tool, status |-> status, target |-> target, number |-> number, proc |-> proc]

FreeHelpers == {p \in HelperIds : toolproc[p].state = "none"}
NewHelper == CHOOSE p \in FreeHelpers : \A q \in FreeHelpers : p <= q

\* handle_network_ping / handle_traceroute up to the first suspension: a
\* request that fails validation ends at once; otherwise
\* create_subprocess_exec forks the command and the handler waits for its
\* output, or the command is not found (FileNotFoundError: 500).
ToolRequest(tool) ==
    /\ toolreq.pc = "idle"
    /\ FreeHelpers # {}
    /\ \E target \in TargetParams, number \in NumberParams, ipv6 \in Ipv6Params,
          found \in BOOLEAN :
         LET status == Validation(tool, target, number)
             is6 == Lower(QueryGet(ipv6, <<"f", "a", "l", "s", "e">>)) = <<"t", "r", "u", "e">>
         IN
         IF status # 0
         THEN /\ toollast' = ToolResponse(tool, status, target, number, 0)
              /\ UNCHANGED <<toolreq, toolproc>>
         ELSE IF ~found
         THEN /\ toollast' = ToolResponse(tool, 500, target, number, 0)
              /\ UNCHANGED <<toolreq, toolproc>>
         ELSE /\ toolproc' = [toolproc EXCEPT ![NewHelper] =
                                 [state |-> "running", cmd |-> Command(tool, is6)]]
              /\ toolreq' = [pc |-> "communicating", tool |-> tool, target |-> target,
                             number |-> number, proc |-> NewHelper]
              /\ UNCHANGED toollast
    /\ UNCHANGED download
    /\ UNCHANGED <<iperfVars, bwVars, samplerReadVars, cacheVars, alsVars, toolVars>>

\* The command ends by itself: all probes sent, or the destination reached.
HelperExit(p) ==
    /\ toolproc[p].state = "running"
    /\ toolproc' = [toolproc EXCEPT ![p].state = "exited"]
    /\ UNCHANGED <<download, toolreq, toollast>>
    /\ UNCHANGED <<iperfVars, bwVars, samplerReadVars, cacheVars, alsVars, toolVars>>

\* process.communicate() returns: the response carries the output.
ToolDone ==
    /\ toolreq.pc = "communicating"
    /\ toolproc[toolreq.proc].state = "exited"
    /\ toollast' = ToolResponse(toolreq.tool, 200, toolreq.target, toolreq.number,
                                toolreq.proc)
    /\ toolreq' = NoToolReq
    /\ UNCHANGED <<download, toolproc>>
    /\ UNCHANGED <<iperfVars, bwVars, samplerReadVars, cacheVars, alsVars, toolVars>>

\* the helper processes after `except asyncio.TimeoutError`: wait_for has
\* cancelled communicate(), and nothing signals the process
TimedOutHelpers(P, p) == P

\* The 30 s (ping) or 60 s (traceroute) elapse with the command still running:
\* wait_for raises TimeoutError and the handler raises HTTPException(408).
ToolTimeout ==
    /\ toolreq.pc = "communicating"
    /\ toolproc[toolreq.proc].state = "running"
    /\ toollast' = ToolResponse(toolreq.tool, 408, toolreq.target, toolreq.number,
                                toolreq.proc)
    /\ toolproc' = TimedOutHelpers(toolproc, toolreq.proc)
    /\ toolreq' = NoToolReq
    /\ UNCHANGED download
    /\ UNCHANGED <<iperfVars, bwVars, samplerReadVars, cacheVars, alsVars, toolVars>>

(***************************************************************************)
(* Specifications.                                                         *)
(***************************************************************************)
Init ==
    /\ processes = <<>>
    /\ req = [r \in Reqs |-> NoReq]
    /\ attempt = 0
    /\ procs = [p \in ProcIds |-> NoProc]
    /\ lastCall = NoLast
    /\ monitoring = FALSE
    /\ monitor_task = 0
    /\ tasks = [t \in TaskIds |-> NoTask]
    /\ interface_stats = <<>>
    /\ last_stats = <<>>
    /\ now = 0
    /\ collected = <<>>
    /\ ticker = 0
    /\ nticks = 0
    /\ bwreq = [s \in Callers |-> NoCall]
    /\ bwlast = EndedBw("none", FALSE, 0)
    /\ snapshot = NoSnapshot
    /\ tickLog = <<>>
    /\ cache = <<>>
    /\ ctime = 0
    /\ qreq = [r \in QueryReqs |-> NoQuery]
    /\ qlast = NoResponse
    /\ origin = <<>>
    /\ als_features = ALSFeatures
    /\ checked = NoCheck
    /\ validated = NoValidation
    /\ path = Tools
    /\ requirements = NoRequirements
    /\ download = NoDownload
    /\ toolreq = NoToolReq
    /\ toolproc = NoToolProc
    /\ toollast = NoToolResponse

\* The session manager, its helper processes and the shutdown handler.  Every
\* start draws a free port at its first probe here: a probe of a busy port
\* changes nothing but the loop counter, and SpecPorts runs the whole loop.
NextIperf ==
    \/ \E r \in Reqs : StartServer(r)
    \/ \E r \in Reqs : ProbeSpawn(r)
    \/ \E r \in Reqs : ProbeSpawnFail(r)
    \/ \E r \in Reqs : StartReturn(r)
    \/ \E r \in Reqs : StopServer(r)
    \/ \E r \in Reqs : StopWaitDone(r)
    \/ \E r \in Reqs : StopTimeout(r)
    \/ \E r \in Reqs : StopKill(r)
    \/ \E r \in Reqs : Shutdown(r)
    \/ \E p \in ProcIds : ProcBind(p)
    \/ \E p \in ProcIds : ProcExit(p)
    \/ \E p \in ProcIds : LoopReap(p)

SpecIperf == Init /\ [][NextIperf]_vars

\* start_server with the whole probing loop of get_available_port, and the
\* helper processes it starts.
NextPorts ==
    \/ \E r \in Reqs : StartServer(r)
    \/ \E r \in Reqs : ProbeBusy(r)
    \/ \E r \in Reqs : ProbeExhausted(r)
    \/ \E r \in Reqs : ProbeSpawn(r)
    \/ \E r \in Reqs : ProbeSpawnFail(r)
    \/ \E r \in Reqs : StartReturn(r)
    \/ \E p \in ProcIds : ProcBind(p)
    \/ \E p \in ProcIds : ProcExit(p)
    \/ \E p \in ProcIds : LoopReap(p)

SpecPorts == Init /\ [][NextPorts]_vars

\* The sampler under any clock and any answer of the OS, for a few iterations.
NextBW ==
    \/ StartMonitoring
    \/ \E s \in Callers : StopMonitoring(s)
    \/ \E s \in Callers : StopReturn(s)
    \/ \E t \in TaskIds : Tick(t)
    \/ \E t \in TaskIds : TickFails(t)
    \/ \E t \in TaskIds : LoopCancelled(t)

SpecBW == Init /\ [][NextBW]_vars

\* The sampler on a host under steady traffic, run past the history capacity.
NextRetention ==
    \/ StartMonitoring
    \/ \E s \in Callers : StopMonitoring(s)
    \/ \E s \in Callers : StopReturn(s)
    \/ \E t \in TaskIds : TickSteady(t)
    \/ \E t \in TaskIds : LoopCancelled(t)

SpecRetention == Init /\ [][NextRetention]_vars

\* The sampler under steady traffic and a reader of its statistics.
NextSnapshot ==
    \/ StartMonitoring
    \/ \E t \in TaskIds : TickSteady(t)
    \/ GetCurrentStats

SpecSnapshot == Init /\ [][NextSnapshot]_vars

\* The query handler, the store and the clock.
NextCache ==
    \/ \E r \in QueryReqs : QueryHit(r)
    \/ \E r \in QueryReqs : QueryHitExpired(r)
    \/ \E r \in QueryReqs : QueryMiss(r)
    \/ \E r \in QueryReqs : ExecuteDone(r)
    \/ \E r \in QueryReqs : ExecuteFails(r)
    \/ CacheTick

SpecCache == Init /\ [][NextCache]_vars

\* The feature switches and the callers that flip and read them.
NextFeatures ==
    \/ \E b \in BOOLEAN : SetEnabled(b)
    \/ \E f \in FeatureNames, b \in BOOLEAN : SetFeatureEnabled(f, b)
    \/ \E f \in AttrNames : IsFeatureEnabled(f)

SpecFeatures == Init /\ [][NextFeatures]_vars

\* One call of the configuration validator, on any configuration.
NextValidate == ValidateAlsConfig

SpecValidate == Init /\ [][NextValidate]_vars

\* The host's tools and the callers of the requirements check.
NextTools ==
    \/ \E tool \in Tools : Install(tool)
    \/ \E tool \in Tools : Uninstall(tool)
    \/ CheckSystemRequirements

SpecTools == Init /\ [][NextTools]_vars

\* The query handler on a store whose refresh may fail.
NextCacheFaults ==
    \/ NextCache
    \/ \E r \in QueryReqs : QueryHitExpireFails(r)

SpecCacheFaults == Init /\ [][NextCacheFaults]_vars

\* The sampler and its callers, with the scheduling of the event loop: a task
\* that can run is run, and a coroutine whose awaited task is done is resumed.
StopLiveness ==
    /\ \A t \in TaskIds : WF_vars(LoopCancelled(t))
    /\ \A s \in Callers : WF_vars(StopReturn(s))

SpecStop == Init /\ [][NextRetention]_vars /\ StopLiveness

\* The sampler on a host with virtual interfaces, and a reader of its statistics.
NextExclusion ==
    \/ StartMonitoring
    \/ \E t \in TaskIds : TickNamed(t)
    \/ GetCurrentStats

SpecExclusion == Init /\ [][NextExclusion]_vars

\* The sampler, the callers that start and stop it and a reader of its
\* statistics, on a host whose interfaces come and go.
NextReaders ==
    \/ StartMonitoring
    \/ \E s \in Callers : StopMonitoring(s)
    \/ \E s \in Callers : StopReturn(s)
    \/ \E t \in TaskIds : TickNamed(t)
    \/ \E t \in TaskIds : LoopCancelled(t)
    \/ GetCurrentStats

SpecReaders == Init /\ [][NextReaders]_vars

\* The speed-test downloads; the server keeps asking the generator of a
\* response for its next chunk until the generator stops.
NextSpeedtest ==
    \/ SpeedtestDownload
    \/ SpeedtestFile
    \/ GenerateNext
    \/ GenerateSleep

SpecSpeedtest ==
    /\ Init
    /\ [][NextSpeedtest]_vars
    /\ WF_vars(GenerateNext)
    /\ WF_vars(GenerateSleep)

\* The ping and traceroute handlers and the commands they run.
NextNetTools ==
    \/ \E tool \in ToolNames : ToolRequest(tool)
    \/ \E p \in HelperIds : HelperExit(p)
    \/ ToolDone
    \/ ToolTimeout

SpecNetTools == Init /\ [][NextNetTools]_vars

(***************************************************************************)
(* Properties of the session manager.                                      *)
(***************************************************************************)
Alive(p) == procs[p].state \in {"running", "listening"}

\* C1: no two live sessions hold the same port: a start never replaces the
\* record of a session whose helper process is still live (two concurrent
\* starts never end up with the same port).
C1_NoLiveRecordReplaced ==
    [][\A i \in 1..Len(processes) :
          LET e == processes[i] IN
          (HasKey(processes', e.port) /\ GetItem(processes', e.port) # e.proc)
              => ~Alive(e.proc)]_vars

\* C2: stop_server is idempotent: a call for a port that has a session returns
\* True (and the next one then False), a call for a port without a session
\* returns False.  Calls that overlap another stop of the same port, the only
\* ones to end in KeyError, are left aside: the claim is about sequential calls.
C2_StopTrueThenFalse ==
    (lastCall.op = "stop" /\ lastCall.result # "raised_key") =>
        IF lastCall.found THEN lastCall.result = "true" ELSE lastCall.result = "false"

\* C3: termination escalation: a stop_server call that finds a session sends
\* the graceful signal first, issues the forced kill only after it and only
\* when the wait timed out, and in either case completes returning True.
C3_StopEscalatesAndCompletes ==
    /\ \A r \in Reqs : req[r].pc \in {"stop_wait", "stop_kill"} => procs[req[r].proc].term
    /\ \A p \in ProcIds : procs[p].kill => procs[p].term
    /\ (lastCall.op = "stop" /\ lastCall.found) =>
           (lastCall.result = "true" /\ procs[lastCall.proc].term)

\* C4: when the shutdown sequence (iperf3 enabled) has completed, the session
\* map is empty and every helper process that was recorded has been signalled
\* to terminate.
C4_ShutdownStopsEverySession ==
    \A r \in Reqs :
        (req[r].op = "shutdown" /\ req[r].pc = "done" /\ req[r].iperf) =>
            /\ processes = <<>>
            /\ \A p \in req[r].seen : procs[p].term

\* the step in which the start_server call of r ends with `result`
StartEnds(r, result) ==
    /\ req[r].pc = "probe"
    /\ req'[r].pc = "idle"
    /\ lastCall'.result = result

\* C5: a failed spawn is an error of the calling request only (HTTP 500 with
\* the cause); the session map is what it was before the call, which has no
\* suspension point before the failure, and no session is registered for the
\* allocated port.
C5_SpawnFailureRegistersNothing ==
    [][\A r \in Reqs :
          /\ req[r].pc = "probe" => processes' = processes
          /\ StartEnds(r, "http500_spawn") =>
                /\ procs' = procs
                /\ \A q \in Reqs \ {r} : req'[q] = req[q]]_vars

C5_Witness ==
    /\ lastCall.op = "start"
    /\ lastCall.result = "http500_spawn"
    /\ processes # <<>>
    /\ ~HasKey(processes, lastCall.port)

\* C6: get_available_port returns only a port of the configured range whose
\* probe bound on that attempt, probes at most MaxAttempts (100) times, and
\* fails exactly when all of them failed; start_server then fails that request
\* alone, registering nothing.
C6_PortAllocationBounded ==
    /\ [](attempt \in 0..MaxAttempts)
    /\ [][\A r \in Reqs : req[r].pc = "probe" =>
            /\ (attempt' # attempt \/ req'[r] # req[r]) =>
                  (attempt < MaxAttempts \/ StartEnds(r, "http500_noport"))
            /\ req'[r].pc = "spawned" =>
                  (req'[r].port \in PortRange /\ req'[r].port \notin BoundPorts)
            /\ StartEnds(r, "http500_spawn") =>
                  (lastCall'.port \in PortRange /\ lastCall'.port \notin BoundPorts)
            /\ StartEnds(r, "http500_noport") =>
                  /\ attempt = MaxAttempts
                  /\ processes' = processes
                  /\ procs' = procs
                  /\ \A q \in Reqs \ {r} : req'[q] = req[q]]_vars

C6_Witness ==
    /\ lastCall.op = "start"
    /\ lastCall.result = "http500_noport"
    /\ \A port \in PortRange : port \in BoundPorts
    /\ \A r \in Reqs : req[r].pc = "idle"

(***************************************************************************)
(* Properties of the sampler.                                              *)
(***************************************************************************)
\* C7 as stated: at most one sampling loop task is unfinished at any time.
C7_AtMostOneUnfinishedLoop ==
    Cardinality({t \in TaskIds : Unfinished(t)}) <= 1

\* C7, amended: at most one loop task that has not been cancelled is
\* unfinished at any time, and it is the task of the running sampler; a call
\* of start_monitoring that finds the sampler running creates no task.
C7_AtMostOneSamplingLoop ==
    /\ Cardinality({t \in TaskIds : Runnable(t)}) <= 1
    /\ \A t \in TaskIds : Runnable(t) => (monitoring /\ monitor_task = t)
    /\ (bwlast.op = "start" /\ bwlast.found) => bwlast.task = 0

C7_Witness ==
    /\ bwlast = EndedBw("start", TRUE, 0)
    /\ \E t, u \in TaskIds : Unfinished(t) /\ tasks[t].cancel /\ Runnable(u)

\* C8: a stop_monitoring call that finds the sampler running clears the
\* running flag and cancels the loop task before it waits; once it has
\* returned, the loop it cancelled has exited (the sampler is running then only
\* if a later start created another loop); and no loop that is cancelled or
\* finished runs another iteration, so it appends no further sample.
C8_StoppedLoopSamplesNoMore ==
    /\ []((bwlast.op = "stop" /\ bwlast.found /\ bwlast.task # 0) =>
              tasks[bwlast.task].state = "done")
    /\ [][/\ (nticks' # nticks \/ collected' # collected) =>
                (ticker' \in TaskIds /\ Runnable(ticker'))
          /\ \A t \in TaskIds : tasks[t].state = "done" => tasks'[t] = tasks[t]
          /\ \A s \in Callers :
                /\ (bwreq[s].pc = "idle" /\ bwreq'[s].pc = "awaiting") =>
                      (~monitoring' /\ tasks'[bwreq'[s].task].cancel)
                /\ (bwreq[s].pc = "awaiting" /\ bwreq'[s].pc = "idle") =>
                      (monitoring' => monitor_task' # bwreq[s].task)]_vars

C8_Witness ==
    /\ bwlast.op = "stop"
    /\ bwlast.found
    /\ bwlast.task # 0
    /\ tasks[bwlast.task].state = "done"
    /\ ticker \in TaskIds \ {bwlast.task}
    /\ \E i \in DOMAIN collected : Len(collected[i]) >= 2

\* C9: every retained history holds at most HistoryLen (60) samples, and they
\* are the most recent ones in collection order: after 60+k samples of an
\* interface exactly 60 are retained, the oldest k dropped.
C9_HistoryBounded ==
    /\ DOMAIN interface_stats = DOMAIN collected
    /\ \A i \in DOMAIN interface_stats :
          /\ Len(interface_stats[i]) <= HistoryLen
          /\ interface_stats[i] = LastN(collected[i], HistoryLen)

C9_Witness ==
    \E i \in DOMAIN interface_stats :
        /\ Len(collected[i]) = HistoryLen + ExtraTicks
        /\ Len(interface_stats[i]) = HistoryLen
        /\ interface_stats[i][1] = collected[i][ExtraTicks + 1]

RatesOf(sample) ==
    [send_rate |-> sample.send_rate, recv_rate |-> sample.recv_rate,
     send_packets_rate |-> sample.send_packets_rate,
     recv_packets_rate |-> sample.recv_packets_rate]

\* C10: the first sample collected for an interface reports all four rates
\* as 0, whatever the counters are.
C10_FirstSampleRatesZero ==
    \A i \in DOMAIN collected :
        collected[i] # <<>> => RatesOf(collected[i][1]) = ZeroRates

C10_Witness ==
    \E i \in DOMAIN collected :
        /\ Len(collected[i]) >= 2
        /\ collected[i][1].bytes_sent > 0
        /\ collected[i][1].packets_recv > 0
        /\ RatesOf(collected[i][2]) # ZeroRates

\* the fraction q is the quotient of delta by time_diff
IsQuotient(q, delta, time_diff) == q.den > 0 /\ q.num * time_diff = delta * q.den

\* C11: a sample that has a previous sample of its interface carries, for
\* each of the four rates, the counter difference divided by the elapsed time
\* when that time is greater than 0, and 0 otherwise; counters sent 1000 then
\* 1500 and recv 2000 then 2600 one second apart give 500 and 600.
C11_RatesAreDeltaOverElapsed ==
    \A i \in DOMAIN collected : \A k \in 2..Len(collected[i]) :
        LET cur == collected[i][k]
            prev == collected[i][k - 1]
            time_diff == cur.timestamp - prev.timestamp
        IN
        /\ time_diff > 0 =>
              /\ IsQuotient(cur.send_rate, cur.bytes_sent - prev.bytes_sent, time_diff)
              /\ IsQuotient(cur.recv_rate, cur.bytes_recv - prev.bytes_recv, time_diff)
              /\ IsQuotient(cur.send_packets_rate,
                            cur.packets_sent - prev.packets_sent, time_diff)
              /\ IsQuotient(cur.recv_packets_rate,
                            cur.packets_recv - prev.packets_recv, time_diff)
        /\ time_diff <= 0 => RatesOf(cur) = ZeroRates
        /\ (/\ time_diff = 1
            /\ prev.bytes_sent = 1000 /\ cur.bytes_sent = 1500
            /\ prev.bytes_recv = 2000 /\ cur.bytes_recv = 2600) =>
              (cur.send_rate = [num |-> 500, den |-> 1] /\ cur.recv_rate = [num |-> 600, den |-> 1])

C11_Witness ==
    /\ Eth0 \in DOMAIN collected
    /\ Len(collected[Eth0]) = 2
    /\ collected[Eth0][2].timestamp - collected[Eth0][1].timestamp = 1
    /\ collected[Eth0][1].bytes_sent = 1000
    /\ collected[Eth0][2].bytes_sent = 1500
    /\ collected[Eth0][2].send_rate = [num |-> 500, den |-> 1]
    /\ collected[Eth0][2].recv_rate = [num |-> 600, den |-> 1]

\* what a reader sees in the snapshot it holds
SnapshotSeen ==
    [i \in DOMAIN snapshot.result |->
        [current |-> snapshot.result[i].current,
         history |-> Items(snapshot.result[i].history)]]

\* C12: the snapshot taken after n samples of an interface has, for every
\* interface with a retained sample, 'current' from the n-th sample and
\* 'history' equal to the last min(30, n) retained samples in collection
\* order, and stays so whatever the sampler appends afterwards.  (Under
\* steady traffic every iteration appends one sample per interface kept.)
C12_SnapshotIsACopy ==
    snapshot.at >= 0 =>
        LET n == snapshot.at IN
        /\ DOMAIN SnapshotSeen = {i \in DOMAIN collected : n >= 1}
        /\ \A i \in DOMAIN SnapshotSeen :
              LET retained == LastN(SubSeq(collected[i], 1, n), HistoryLen) IN
              /\ SnapshotSeen[i].history = LastN(retained, SnapshotLen)
              /\ Len(SnapshotSeen[i].history) = IF n < SnapshotLen THEN n ELSE SnapshotLen
              /\ SnapshotSeen[i].current = CurrentOf(collected[i][n])

C12_Witness ==
    /\ snapshot.at > SnapshotLen
    /\ nticks > snapshot.at
    /\ \E i \in DOMAIN snapshot.result :
          /\ Len(collected[i]) > snapshot.at
          /\ Len(SnapshotSeen[i].history) = SnapshotLen

\* C13: an iteration whose OS query fails appends nothing and leaves the
\* loop task alive and the sampler running; an iteration that follows it
\* samples as usual; a loop task ends only once stop_monitoring has cleared
\* the running flag or cancelled it.
C13_FailedTickIsSkipped ==
    [][/\ (Len(tickLog') > Len(tickLog) /\ tickLog'[Len(tickLog')] = "failed") =>
            /\ Unfinished(ticker)' /\ Runnable(ticker)'
            /\ monitoring /\ monitoring'
            /\ interface_stats' = interface_stats
            /\ last_stats' = last_stats
       /\ (Len(tickLog') > Len(tickLog) /\ tickLog # <<>> /\ tickLog[Len(tickLog)] = "failed"
             /\ tickLog'[Len(tickLog')] = "sampled") =>
            \A i \in DOMAIN collected' :
                (i \notin DOMAIN collected \/ collected'[i] # collected[i]) =>
                    /\ i \in DOMAIN interface_stats'
                    /\ interface_stats'[i][Len(interface_stats'[i])] =
                          collected'[i][Len(collected'[i])]
                    /\ last_stats'[i] = collected'[i][Len(collected'[i])]
                    /\ last_stats'[i].timestamp = now'
       /\ \A t \in TaskIds :
            (tasks[t].state # "done" /\ tasks'[t].state = "done") =>
                (tasks[t].cancel \/ ~monitoring)]_vars

C13_Witness ==
    /\ tickLog = <<"failed", "sampled">>
    /\ Eth0 \in DOMAIN collected
    /\ Len(collected[Eth0]) = 1
    /\ monitoring
    /\ Runnable(ticker)

(***************************************************************************)
(* Properties of the query cache.                                          *)
(***************************************************************************)
\* the step is a request that took the hit branch and responded
HitStep ==
    /\ qreq' = qreq
    /\ ctime' = ctime
    /\ (cache' # cache \/ qlast' # qlast)
    /\ qlast'.cached

\* C14: while an entry is stored, a lookup returns the output and the
\* timestamp of the miss that populated it, unchanged; a request that hits
\* the entry, the entry not expiring meanwhile, responds that output and
\* that timestamp.
C14_CacheRoundTrip ==
    /\ [](/\ DOMAIN origin = DOMAIN cache
          /\ \A k \in DOMAIN cache :
                /\ GetMap(cache, k, "output") = origin[k].output
                /\ GetMap(cache, k, "timestamp") = origin[k].timestamp
                /\ Truthy(origin[k].output))
    /\ [][(HitStep /\ qlast'.id \in DOMAIN cache') =>
             /\ qlast'.id \in DOMAIN origin
             /\ qlast'.found
             /\ qlast'.output = origin[qlast'.id].output
             /\ qlast'.timestamp = origin[qlast'.id].timestamp]_vars

C14_Witness ==
    /\ qlast.level = "success"
    /\ qlast.cached
    /\ qlast.id \in DOMAIN cache
    /\ qlast.output = origin[qlast.id].output
    /\ qlast.timestamp = origin[qlast.id].timestamp
    /\ qlast.asked > qlast.timestamp

\* C15: a hit sets the remaining lifetime of its entry to the configured
\* timeout, whatever was left of it, so no entry ever has more than the
\* timeout left; every tick takes one unit off, and an entry is removed only
\* when its lifetime has run out, which is a full timeout after its last hit
\* or its population.
C15_SlidingTtl ==
    /\ [](\A k \in DOMAIN cache : cache[k].ttl \in 1..CacheTimeout)
    /\ [][/\ (HitStep /\ qlast'.id \in DOMAIN cache') =>
                cache'[qlast'.id].ttl = CacheTimeout
          /\ ctime' # ctime =>
                \A k \in DOMAIN cache :
                    IF cache[k].ttl = 1 THEN k \notin DOMAIN cache'
                    ELSE k \in DOMAIN cache' /\ cache'[k].ttl = cache[k].ttl - 1
          /\ \A k \in DOMAIN cache : k \notin DOMAIN cache' => cache[k].ttl = 1
          /\ \A k \in DOMAIN cache' : k \notin DOMAIN cache => cache'[k].ttl = CacheTimeout]_vars

C15_Witness ==
    \E k \in DOMAIN cache :
        /\ ctime - cache[k].timestamp > CacheTimeout
        /\ qlast.cached
        /\ qlast.id = k

\* C16: the timestamp of a stored entry never changes, and every request
\* that takes the hit branch responds the timestamp the entry was created
\* with, not the time of the hit.
C16_TimestampIsTheOriginal ==
    [][/\ \A k \in DOMAIN cache \cap DOMAIN cache' :
            cache'[k].timestamp = cache[k].timestamp
       /\ HitStep => (/\ qlast'.id \in DOMAIN cache
                      /\ qlast'.timestamp = cache[qlast'.id].timestamp)]_vars

\* C17: the cache key is a function of target, query type and device alone:
\* requests that agree on them have the same key whatever their timestamps
\* and ids, and a request for which an entry of the same three fields is
\* stored never takes the miss branch.
C17_DigestDeterminism ==
    /\ [](\A r1, r2 \in QueryReqs :
            (/\ qreq[r1].pc = "executing" /\ qreq[r2].pc = "executing"
             /\ qreq[r1].data.target = qreq[r2].data.target
             /\ qreq[r1].data.query_type = qreq[r2].data.query_type
             /\ qreq[r1].data.device = qreq[r2].data.device) =>
                CacheKey(qreq[r1].data) = CacheKey(qreq[r2].data))
    /\ [][\A r \in QueryReqs :
            (qreq[r].pc = "idle" /\ qreq'[r].pc = "executing") =>
                \A k \in DOMAIN cache : k[2] # Digest(qreq'[r].data)]_vars

C17_Witness ==
    /\ qlast.level = "success"
    /\ qlast.cached
    /\ qlast.id \in DOMAIN cache
    /\ qlast.asked # cache[qlast.id].timestamp
    /\ \E r \in QueryReqs : qreq[r].pc = "executing" /\ CacheKey(qreq[r].data) # qlast.id

\* C18: a successful response has cached=true and runtime 0 exactly when the
\* initial lookup found a stored output, cached=false and the measured time
\* otherwise, and carries the output, the cache key and the timestamp of the
\* entry in both cases.
C18_ResponseReportsTheEntry ==
    /\ [](qlast.level = "success" =>
            /\ qlast.cached = qlast.found
            /\ qlast.cached => qlast.runtime = 0
            /\ Truthy(qlast.output)
            /\ qlast.timestamp # NoTime
            /\ qlast.id # <<>>)
    /\ [][\A r \in QueryReqs :
            (qreq[r].pc = "executing" /\ qreq'[r].pc = "idle" /\ qlast'.level = "success") =>
                (~qlast'.cached /\ qlast'.runtime = ctime - qreq[r].starttime)]_vars

(***************************************************************************)
(* Properties of the feature switches and of the configuration validator.  *)
(***************************************************************************)
\* C19: is_feature_enabled(f) is true exactly when the master switch is on, f
\* names a feature and that feature's own switch is on; with the master
\* switch off it is false for every name whatever the feature switches say,
\* and it is false for a name that is not a feature.
C19_FeatureEnabledIff ==
    checked # NoCheck =>
        /\ checked.result <=> /\ checked.on.enabled
                              /\ checked.feature \in FeatureNames
                              /\ checked.on[checked.feature].enabled
        /\ ~checked.on.enabled => ~checked.result
        /\ checked.feature \notin FeatureNames => ~checked.result

\* a feature whose own switch is on was asked about while the master switch
\* was off, and the answer was false
C19_Witness ==
    /\ checked.feature \in FeatureNames
    /\ ~checked.on.enabled
    /\ checked.on[checked.feature].enabled
    /\ ~checked.result

MaxSizeNumber == 10

UnitNames == { <<"K", "B">>, <<"M", "B">>, <<"G", "B">> }

\* the decimal numeral of an integer
RECURSIVE Decimal(_)
Decimal(n) ==
    IF n < 0 THEN <<"-">> \o Decimal(0 - n)
    ELSE IF n < 10 THEN <<DigitChars[n + 1]>>
    ELSE Decimal(n \div 10) \o <<DigitChars[(n % 10) + 1]>>

\* the file sizes that are a number from lo to hi followed by a unit
FileSizesOf(lo, hi) == {Decimal(n) \o unit : n \in lo .. hi, unit \in UnitNames}

\* the als_features section of a configuration that has a non-empty one
HasSection(cd) ==
    /\ cd.type = "dict"
    /\ "als_features" \in DOMAIN cd.items
    /\ cd.items.als_features.type = "dict" => DOMAIN cd.items.als_features.items # {}

\* a section that breaks the model: a value of the wrong type, a number
\* outside the range its field declares, a file size that is not a number
\* followed by a unit, or a port pair that is not 1024 <= start < end <= 65535
ModelOrRangeViolation(s) ==
    \/ s.type # "dict"
    \/ /\ s.type = "dict"
       /\ \/ /\ "speedtest" \in DOMAIN s.items
             /\ \/ s.items.speedtest.type # "dict"
                \/ /\ s.items.speedtest.type = "dict"
                   /\ LET c == s.items.speedtest.items IN
                      \/ c.chunk_size \notin 1 .. 1024
                      \/ \E i \in DOMAIN c.file_sizes :
                            c.file_sizes[i] \notin
                                FileSizesOf(0 - MaxSizeNumber, MaxSizeNumber)
          \/ /\ "network_tools" \in DOMAIN s.items
             /\ LET c == s.items.network_tools.items IN
                \/ ~(/\ 1024 <= c.iperf3_port_range[1]
                     /\ c.iperf3_port_range[1] < c.iperf3_port_range[2]
                     /\ c.iperf3_port_range[2] <= 65535)
                \/ c.max_ping_count \notin 1 .. 100
          \/ /\ "bandwidth" \in DOMAIN s.items
             /\ LET c == s.items.bandwidth.items IN
                \/ c.update_interval \notin 1 .. 60
                \/ c.history_length \notin 10 .. 3600

\* a section that breaks nothing and whose file sizes are positive
WellFormedSection(s) ==
    /\ ~ModelOrRangeViolation(s)
    /\ "speedtest" \in DOMAIN s.items =>
          \A i \in DOMAIN s.items.speedtest.items.file_sizes :
              s.items.speedtest.items.file_sizes[i] \in FileSizesOf(1, MaxSizeNumber)

RequiredNames == {"ping", "ping6", "traceroute", "traceroute6", "iperf3"}

\* C21: check_system_requirements answers true with an empty list exactly
\* when every required tool is found, and otherwise false with a list that
\* names exactly the required tools that were not found, each once.
C21_RequirementsNameTheMissing ==
    requirements.called =>
        LET missing == requirements.missing_tools
            named == {missing[i][1] : i \in DOMAIN missing}
        IN
        /\ requirements.requirements_met <=> RequiredNames \subseteq requirements.on
        /\ requirements.requirements_met <=> missing = <<>>
        /\ named = RequiredNames \ requirements.on
        /\ Cardinality(named) = Len(missing)

\* the check ran on a host that lacks two required tools and has the others
C21_Witness ==
    /\ requirements.called
    /\ RequiredNames \ requirements.on = {"ping6", "iperf3"}
    /\ ~requirements.requirements_met
    /\ Len(requirements.missing_tools) = 2

(***************************************************************************)
(* Properties of the session lifecycle.                                    *)
(***************************************************************************)
\* C22: a session whose helper process has exited is Stopped and the manager
\* holds no record of it: a stop_server(port) issued after the process has
\* exited and the event loop has seen it still completes, returning True and
\* removing the record.
C22_StopAfterExitRemovesRecord ==
    [][\A r \in Reqs, port \in PortRange :
          (/\ CanBegin(r)
           /\ HasKey(processes, port)
           /\ procs[GetItem(processes, port)].state = "closed"
           /\ req' = req
           /\ lastCall'.op = "stop"
           /\ lastCall'.port = port
           /\ lastCall'.found
           /\ lastCall'.result # "true")
              => FALSE]_vars

\* C23: lifecycle operations on one port are serialized: no stop_server call
\* ends in an error because another stop of the same port overlapped it, and
\* the record a stop removes is the record of the process it signalled, never
\* the record a start has written for the port in the meantime.
C23_LifecycleSerialized ==
    /\ [](lastCall.op = "stop" => lastCall.result # "raised_key")
    /\ [][\A r \in Reqs :
            (/\ req[r].pc \in {"stop_wait", "stop_kill"}
             /\ req'[r].pc # req[r].pc
             /\ HasKey(processes, req[r].port)
             /\ ~HasKey(processes', req[r].port))
                => GetItem(processes, req[r].port) = req[r].proc]_vars

\* C24: once a stop_server call has issued the forced kill it completes in the
\* same synchronous stretch: the record of its port is removed and the call
\* returns True.
C24_KillThenCompletion ==
    [][\A r \in Reqs :
          (/\ req[r].pc = "stop_kill"
           /\ req'[r] # req[r]
           /\ ~SignalRaises(req[r].proc)
           /\ procs'[req[r].proc].kill)
              => /\ HasKey(processes, req[r].port)
                 /\ ~HasKey(processes', req[r].port)
                 /\ req[r].op = "stop" =>
                       (req'[r].pc = "idle" /\ lastCall'.result = "true")]_vars

(***************************************************************************)
(* Properties of concurrent requests and of the writes to the store.       *)
(***************************************************************************)
\* the step in which request r, back from execute with an output, responds
MissEnds(r) ==
    /\ qreq[r].pc = "executing"
    /\ qreq'[r].pc = "idle"
    /\ qlast'.level = "success"

\* C25: identical queries are not deduplicated: every request whose lookup
\* found nothing executes and populates, whatever other request with the same
\* key is executing or has populated meanwhile; after it the entry holds the
\* output and the timestamp of this writer, the last one, and its response is
\* marked cached=false.
C25_LastWriterWins ==
    [][\A r \in QueryReqs :
          MissEnds(r) =>
              LET key == CacheKey(qreq[r].data) IN
              /\ ~qlast'.cached
              /\ qlast'.id = key
              /\ key \in DOMAIN cache'
              /\ cache'[key].output.at = ctime
              /\ cache'[key].timestamp = qreq[r].data.timestamp
              /\ qlast'.output = cache'[key].output
              /\ qlast'.timestamp = cache'[key].timestamp]_vars

\* a request has populated the entry of a key and responded cached=false
\* while another request, whose lookup of the same key came before and found
\* nothing, is still executing
C25_Witness ==
    \E r \in QueryReqs :
        /\ qreq[r].pc = "executing"
        /\ CacheKey(qreq[r].data) = qlast.id
        /\ qlast.level = "success"
        /\ ~qlast.cached
        /\ qlast.id \in DOMAIN cache
        /\ cache[qlast.id].timestamp # qreq[r].data.timestamp
        /\ qreq[r].starttime <= qlast.output.at

\* C26: a miss that obtains an output leaves its entry with the output, the
\* timestamp and the TTL it wrote and touches no other entry; a lookup that
\* finds nothing and a failed execution change nothing in the store; a hit
\* changes nothing but the TTL of its entry.
C26_WritesOfMissAndHit ==
    [][/\ \A r \in QueryReqs :
            /\ MissEnds(r) =>
                  LET key == CacheKey(qreq[r].data) IN
                  /\ cache'[key] = [output |-> qlast'.output,
                                    timestamp |-> qreq[r].data.timestamp,
                                    ttl |-> CacheTimeout]
                  /\ \A k \in DOMAIN cache \ {key} : k \in DOMAIN cache' /\ cache'[k] = cache[k]
                  /\ DOMAIN cache' = DOMAIN cache \cup {key}
            /\ (qreq[r].pc # qreq'[r].pc /\ ~MissEnds(r)) => cache' = cache
       /\ (HitStep /\ qlast'.id \in DOMAIN cache') =>
             /\ DOMAIN cache' = DOMAIN cache
             /\ \A k \in DOMAIN cache :
                   /\ cache'[k].output = cache[k].output
                   /\ cache'[k].timestamp = cache[k].timestamp
                   /\ k # qlast'.id => cache'[k] = cache[k]]_vars

\* a hit has refreshed an entry that is not the only one stored, and the
\* entry still has the timestamp of its population, older than the hit
C26_Witness ==
    /\ qlast.level = "success"
    /\ qlast.cached
    /\ qlast.id \in DOMAIN cache
    /\ Cardinality(DOMAIN cache) = 2
    /\ cache[qlast.id].ttl = CacheTimeout
    /\ cache[qlast.id].timestamp < qlast.asked
    /\ cache[qlast.id].output.at < qlast.asked

\* C27: a failure of the TTL refresh is not fatal: a request whose lookup
\* found an entry responds with success and cached=true.
C27_RefreshFailureNotFatal ==
    qlast.found => (qlast.level = "success" /\ qlast.cached)

(***************************************************************************)
(* Properties of the sampler: order, cancellation, exclusion.              *)
(***************************************************************************)
\* C28: within the history of an interface the samples are strictly ordered
\* by collection time: of two consecutive retained samples the later has the
\* greater timestamp.
C28_HistoryStrictlyOrdered ==
    \A i \in DOMAIN interface_stats :
        \A j \in 1..(Len(interface_stats[i]) - 1) :
            interface_stats[i][j].timestamp < interface_stats[i][j + 1].timestamp

\* C29: a loop task that stop_monitoring has cancelled ends, whether it was
\* sleeping or had not run its first step (an iteration has no suspension
\* point, so no task is cancelled in the middle of one); a stop_monitoring
\* that awaits the task returns, and when it returns the task is done.
C29_StopEndsTheLoop ==
    /\ \A t \in TaskIds : (tasks[t].cancel /\ Unfinished(t)) ~> (tasks[t].state = "done")
    /\ \A s \in Callers : (bwreq[s].pc = "awaiting") ~> (bwreq[s].pc = "idle")
    /\ [](\A s \in Callers : bwreq[s].pc = "awaiting" => tasks[bwreq[s].task].cancel)
    /\ [][\A s \in Callers :
            (bwreq[s].pc = "awaiting" /\ bwreq'[s].pc = "idle") =>
                (tasks[bwreq[s].task].state = "done" /\ tasks'[bwreq[s].task].state = "done")]_vars

\* a stop_monitoring that had to wait has returned: the task it cancelled,
\* which had sampled, is done
C29_Witness ==
    /\ bwlast = EndedBw("stop", TRUE, bwlast.task)
    /\ bwlast.task # 0
    /\ tasks[bwlast.task].state = "done"
    /\ tasks[bwlast.task].cancel
    /\ nticks >= 1
    /\ \A s \in Callers : bwreq[s].pc = "idle"

ExclusionPrefixes == { <<"l", "o">>, <<"d", "o", "c", "k", "e", "r">>,
                       <<"b", "r", "-">>, <<"v", "e", "t", "h">> }

\* the name begins with an exclusion prefix
BeginsExcluded(name) ==
    \E p \in ExclusionPrefixes :
        Len(p) <= Len(name) /\ \A k \in 1..Len(p) : name[k] = p[k]

\* C30: no interface whose name begins with an exclusion prefix has a sample:
\* none is in the retained histories, in the last-sample table, among the
\* samples ever collected or in a snapshot.
C30_ExcludedNeverSampled ==
    \A i \in DOMAIN interface_stats \cup DOMAIN last_stats \cup DOMAIN collected
             \cup DOMAIN snapshot.result :
        ~BeginsExcluded(i)

\* two iterations have sampled a host whose OS reports loopback, container,
\* bridge and virtual-pair interfaces, and a snapshot was taken after them
C30_Witness ==
    /\ nticks = MaxTicks
    /\ tickLog = <<"sampled", "sampled">>
    /\ snapshot.at = nticks
    /\ DOMAIN snapshot.result = OtherInterfaces
(***************************************************************************)
(* Properties of the sampler: ownership of the histories, flag and task.   *)
(***************************************************************************)
\* C31: only an iteration of the sampling loop changes the interface
\* histories and the last-sample table: a step that is not an iteration
\* (start_monitoring, stop_monitoring and its return, get_current_stats, the
\* end of a cancelled task) leaves both as they were.
C31_OnlyTheTickWrites ==
    [][nticks' = nticks =>
          (interface_stats' = interface_stats /\ last_stats' = last_stats)]_vars

\* the sampler has been stopped with samples retained, and a snapshot read
\* after its last iteration shows them
C31_Witness ==
    /\ ~monitoring
    /\ bwlast.op = "stop"
    /\ bwlast.found
    /\ nticks >= 1
    /\ snapshot.at = nticks
    /\ DOMAIN interface_stats = OtherInterfaces
    /\ DOMAIN snapshot.result = OtherInterfaces

\* C32: whenever the flag `monitoring` is set, monitor_task names a loop task
\* that has not finished and has not been cancelled, whatever start and stop
\* calls, iterations and failed iterations came before.
C32_FlagImpliesLiveLoop ==
    monitoring => (monitor_task \in TaskIds /\ Runnable(monitor_task))

\* the sampler runs its second loop after a stop, and an iteration has failed
C32_Witness ==
    /\ monitoring
    /\ \E t \in TaskIds : t # monitor_task /\ tasks[t].state = "done"
    /\ Len(tickLog) >= 1
    /\ tickLog[Len(tickLog)] = "failed"
    /\ ticker = monitor_task

(***************************************************************************)
(* Properties of the helper processes.                                     *)
(***************************************************************************)
\* C33: no orphaned helper process: a helper that start_server has spawned
\* and registered, that is still running and that no stop has signalled, is
\* the process the session map records under its port.
C33_NoOrphanedHelper ==
    \A p \in ProcIds :
        (/\ Alive(p)
         /\ ~procs[p].term
         /\ ~\E r \in Reqs : req[r].pc = "spawned" /\ req[r].proc = p)
            => (/\ HasKey(processes, procs[p].port)
                /\ GetItem(processes, procs[p].port) = p)

(***************************************************************************)
(* Properties of the responses of the query handler.                       *)
(***************************************************************************)
\* C34: every response marked cached=true carries the output stored in the
\* entry its lookup found, and that output is not absent, also when the store
\* expires the entry during the request.
C34_CachedCarriesStoredOutput ==
    [][(qlast' # qlast /\ qlast'.level = "success" /\ qlast'.cached) =>
          /\ Truthy(qlast'.output)
          /\ qlast'.id \in DOMAIN cache
          /\ qlast'.output = cache[qlast'.id].output]_vars

\* C35: a request that missed and obtained an output responds the output it
\* computed itself and the timestamp of its own request, whatever other
\* requests for the same key looked up, executed or populated meanwhile.
C35_MissRespondsItsOwn ==
    [][\A r \in QueryReqs :
          MissEnds(r) =>
              /\ qlast'.output = RawOutput([of |-> Digest(qreq[r].data), at |-> ctime])
              /\ qlast'.timestamp = qreq[r].data.timestamp
              /\ qlast'.asked = qreq[r].data.timestamp
              /\ ~qlast'.found]_vars

\* a request has responded its own output and timestamp after executing for a
\* while, and a request for the same key that asked before it is still
\* executing
C35_Witness ==
    \E r \in QueryReqs :
        /\ qreq[r].pc = "executing"
        /\ qlast.level = "success"
        /\ ~qlast.found
        /\ CacheKey(qreq[r].data) = qlast.id
        /\ qreq[r].data.timestamp < qlast.asked
        /\ qlast.asked < qlast.output.at
        /\ qlast.timestamp = qlast.asked

\* the step in which request r, back from execute, ends without a response
ExecutionEndsEmpty(r) ==
    /\ qreq[r].pc = "executing"
    /\ qreq'[r].pc = "idle"
    /\ qlast'.level # "success"

\* C36: an execution that yields no output ends the request with an error
\* and writes nothing: the store is what it was, with no output, timestamp or
\* TTL written for the key, and an identical request sent next finds what the
\* store held before, a miss when the key had no entry.
C36_EmptyExecutionWritesNothing ==
    [][\A r \in QueryReqs :
          ExecutionEndsEmpty(r) =>
              LET key == CacheKey(qreq[r].data) IN
              /\ qlast'.level = "danger"
              /\ qlast'.id = key
              /\ ~qlast'.cached
              /\ DOMAIN cache' = DOMAIN cache
              /\ \A k \in DOMAIN cache : cache'[k] = cache[k]
              /\ GetMap(cache', key, "output") = GetMap(cache, key, "output")
              /\ GetMap(cache', key, "timestamp") = GetMap(cache, key, "timestamp")]_vars

\* a request has failed for want of an output, its key has no entry, and the
\* identical request sent after it has missed and is executing
C36_Witness ==
    \E r \in QueryReqs :
        /\ qlast.level = "danger"
        /\ qlast.id \notin DOMAIN cache
        /\ qreq[r].pc = "executing"
        /\ CacheKey(qreq[r].data) = qlast.id
        /\ qreq[r].data.timestamp > qlast.asked

(***************************************************************************)
(* Properties of the shutdown handler.                                     *)
(***************************************************************************)
\* C37: the steps of shutdown_als_features are isolated: the handler ends
\* without raising, and a failure while stopping one session does not keep
\* the remaining sessions from being stopped: when the handler has ended, no
\* helper process that was recorded when its loop began is still running
\* without having been signalled.
C37_ShutdownStepsIsolated ==
    \A r \in Reqs :
        (req[r].op = "shutdown" /\ req[r].pc = "done") =>
            /\ req[r].result \in {"ok", "error_logged", "skipped"}
            /\ req[r].iperf => \A p \in req[r].seen : Alive(p) => procs[p].term

(***************************************************************************)
(* Properties of the speed-test downloads.                                 *)
(***************************************************************************)
\* C38: every accepted speed-test download ends, having streamed exactly the
\* bytes its Content-Length announces, in chunks no larger than the chunk
\* size: a response that streams leads to the generator having stopped with
\* bytes_sent equal to Content-Length, and no chunk it yields is longer than
\* the chunk size.
C38_DownloadStreamsContentLength ==
    /\ [](download.pc = "yielded" => download.chunk <= download.chunk_bytes)
    /\ [](download.pc \in {"finished", "aborted"} =>
            (download.pc = "finished" /\ download.bytes_sent = download.content_length))
    /\ (download.pc = "streaming" ~> download.pc = "finished")

(***************************************************************************)
(* Properties of the ping and traceroute handlers.                         *)
(***************************************************************************)
\* what the handlers are to accept: a target that is present and passes the
\* format check, and a count (ping) or max_hops (traceroute) that is an
\* integer of the accepted range
ValidatedRequest(tool, target, number) ==
    LET n == IntOf(QueryGet(number, NumberDefault(tool))) IN
    /\ target.given
    /\ target.value # <<>>
    /\ FormatOk(target.value)
    /\ ~n.raised
    /\ n.value >= 1
    /\ n.value <= NumberMax(tool)

\* C39: ping and traceroute spawn a helper process only for a validated
\* request (target present and of the accepted format, count within 1..20 or
\* max_hops within 1..64), and every request that is not validated ends with
\* status 400 and without a side effect: no process spawned.
C39_SpawnOnlyWhenValidated ==
    [][/\ (toolreq.pc = "idle" /\ toolreq'.pc = "communicating") =>
             ValidatedRequest(toolreq'.tool, toolreq'.target, toolreq'.number)
       /\ (/\ toolreq.pc = "idle"
           /\ toollast' # toollast
           /\ ~ValidatedRequest(toollast'.tool, toollast'.target, toollast'.number)) =>
             (toollast'.status = 400 /\ toolproc' = toolproc /\ toolreq' = toolreq)]_vars

\* C40: no ping or traceroute helper outlives its request: when the wait for
\* the command has timed out and the request has ended with status 408, the
\* process spawned for it is no longer running.
C40_NoHelperOutlivesItsRequest ==
    toollast.status = 408 => toolproc[toollast.proc].state # "running"

====
